---------------------------- MODULE Spec2Model ----------------------------
(***************************************************************************)
(* A model of the POCKETFLOWGRAPH backend: the graph compiler and the      *)
(* run entry point (backend/engine.py), the node lifecycle shared by all   *)
(* platform nodes (backend/nodes/base.py), the control-flow nodes          *)
(* (backend/nodes/control_flow.py), the session Memory node                *)
(* (backend/nodes/data.py), the human-in-the-loop node with its           *)
(* process-wide registry (backend/nodes/human.py), the events handed to    *)
(* the event callback, and the scheduler (backend/scheduler.py).           *)
(*                                                                         *)
(* Python values are tagged records, a Python dict is a sequence of        *)
(* key/value pairs in insertion order.  A key of the shared dict that is   *)
(* absent and one that holds an empty dict behave alike in every place the *)
(* code reads them (shared.get("results", {}), "memory" in shared), so     *)
(* `results` and `memory` are always present in a context here.            *)
(***************************************************************************)
EXTENDS Integers, Sequences, FiniteSets, TLC

(***************************************************************************)
(* Bounds of the model.                                                    *)
(***************************************************************************)
MaxItems == 3
MaxIter == 2
MaxSteps == 14
MaxDepth == 3
MaxNodes == 3
MaxEdges == 2

MaxThreads == 1

MaxResumes == 2

MaxBlocked == 2

MaxFileNodes == 2

MaxFires == 2

MaxRequests == 2

MaxRuns == 2
MaxWriters == 2
MaxInterval == 4

\* asyncio.to_thread uses the loop's default executor, whose size is
\* min(32, os.cpu_count() + 4): five workers on a machine with one CPU.
DefaultWorkers == 5

(***************************************************************************)
(* Python values.                                                          *)
(***************************************************************************)
None == [t |-> "none"]
Str(s) == [t |-> "str", s |-> s]
IntV(n) == [t |-> "int", i |-> n]
BoolV(b) == [t |-> "bool", b |-> b]
MapV(d) == [t |-> "map", m |-> d]
ListV(l) == [t |-> "list", l |-> l]

\* bool(v): Python truthiness
Truthy(v) ==
    CASE v.t = "none" -> FALSE
      [] v.t = "str" -> v.s # ""
      [] v.t = "int" -> v.i # 0
      [] v.t = "bool" -> v.b
      [] v.t = "map" -> v.m # <<>>
      [] v.t = "list" -> v.l # <<>>

\* The decimal numerals that occur in the configurations of the model.
Numerals == [n \in 0..9 |-> CASE n = 0 -> "0" [] n = 1 -> "1" [] n = 2 -> "2"
                              [] n = 3 -> "3" [] n = 4 -> "4" [] n = 5 -> "5"
                              [] n = 6 -> "6" [] n = 7 -> "7" [] n = 8 -> "8"
                              [] n = 9 -> "9"]

IsNumeral(s) == \E n \in DOMAIN Numerals : Numerals[n] = s

NumeralValue(s) == CHOOSE n \in DOMAIN Numerals : Numerals[n] = s

\* json.loads(s) wrapped in try/except as in MemoryNode.exec: a numeral
\* parses to an int, a text that is no JSON document stays the string.
JsonLoadsOrKeep(s) == IF IsNumeral(s) THEN IntV(NumeralValue(s)) ELSE Str(s)

(***************************************************************************)
(* Python dicts: insertion-ordered, d[k] = v keeps the place of a key that *)
(* is already present.                                                     *)
(***************************************************************************)
DictKeys(d) == {d[i].k : i \in 1..Len(d)}

DictHas(d, k) == \E i \in 1..Len(d) : d[i].k = k

DictGet(d, k) == d[CHOOSE i \in 1..Len(d) : d[i].k = k].v

DictGetOr(d, k, dflt) == IF DictHas(d, k) THEN DictGet(d, k) ELSE dflt

DictDel(d, k) == SelectSeq(d, LAMBDA e : e.k # k)

DictSet(d, k, v) ==
    IF DictHas(d, k)
    THEN [i \in 1..Len(d) |-> IF d[i].k = k THEN [k |-> k, v |-> v] ELSE d[i]]
    ELSE Append(d, [k |-> k, v |-> v])

RECURSIVE DictUpdate(_, _)
DictUpdate(d, e) ==
    IF e = <<>> THEN d
    ELSE DictUpdate(DictSet(d, Head(e).k, Head(e).v), Tail(e))

\* results[list(results.keys())[-1]]
LastValue(d) == d[Len(d)].v

(***************************************************************************)
(* A shared context: results, memory, and the remaining keys of the        *)
(* shared dict (the "_loop_<id>" and "_while_<id>" entries).               *)
(***************************************************************************)
EmptyContext == [results |-> <<>>, memory |-> <<>>, state |-> <<>>]


(***************************************************************************)
(* The node lifecycle.  A lifecycle operator takes the node's NodeConfig   *)
(* and the shared context it runs against, and yields the context after   *)
(* prep, exec and post, the transition post returned, the value post       *)
(* handed to BasePlatformNode.post, and the exception that left the        *)
(* lifecycle, if any ("" for none).                                        *)
(***************************************************************************)
NoneAction == "<None>"

Raised(ctx, err) == [ctx |-> ctx, action |-> NoneAction, err |-> err, value |-> None]

\* pf_node.name = node_config.label or node_config.id
NodeName(node) == IF node.label # "" THEN node.label ELSE node.id

\* BasePlatformNode.post without the eviction: a plain results[key] = value,
\* which leaves a key that is already present at its old place.
PutResultInPlace(results, key, value) == DictSet(results, key, value)

\* if key in results: del results[key]; results[key] = value
PutResult(results, key, value) ==
    Append(DictDel(results, key), [k |-> key, v |-> value])

\* BasePlatformNode.post that commits under the node's name only.
BasePostNameOnly(ctx, node, exec_res) ==
    [ctx EXCEPT !.results = PutResult(ctx.results, NodeName(node), exec_res)]

\* BasePlatformNode.post: commit exec_res under the node's name and, when
\* the id is non-empty, under its id; returns None.
BasePost(ctx, node, exec_res) ==
    LET byName == PutResult(ctx.results, NodeName(node), exec_res)
        byId == IF node.id # "" THEN PutResult(byName, node.id, exec_res)
                ELSE byName
    IN  [ctx EXCEPT !.results = byId]

\* safe_serialize: dicts and lists are rebuilt item by item, str, int,
\* bool and None are kept (the values of the model have no other type).
RECURSIVE SafeSerialize(_)
SafeSerialize(v) ==
    CASE v.t = "map" ->
            MapV([i \in 1..Len(v.m) |-> [k |-> v.m[i].k, v |-> SafeSerialize(v.m[i].v)]])
      [] v.t = "list" -> ListV([i \in 1..Len(v.l) |-> SafeSerialize(v.l[i])])
      [] OTHER -> v

SerializeDict(d) == SafeSerialize(MapV(d)).m

\* The Event Sink handed to build_graph as event_callback: absent (None),
\* one that returns, or one whose every call raises.
Sinks == {"none", "ok", "raises"}

NodeEnd(node) ==
    [type |-> "node_end", node_id |-> node.id, node_name |-> NodeName(node)]

StateUpdate(ctx, node) ==
    [type |-> "state_update", node_id |-> node.id,
     memory |-> SerializeDict(ctx.memory), results |-> SerializeDict(ctx.results)]

\* A post that takes the state_update snapshot before it commits.
BasePostEventsEarlySnapshot(on_event, ctx, node, exec_res) ==
    IF on_event = "ok"
    THEN <<NodeEnd(node), StateUpdate(ctx, node)>>
    ELSE <<>>

\* BasePlatformNode.post, lines 150-182: what the sink receives.  With a
\* sink, node_end and then state_update with the context as it is after
\* the commit; a call that raises ends the try block and is swallowed.
BasePostEvents(on_event, ctx, node, exec_res) ==
    IF on_event = "ok"
    THEN <<NodeEnd(node), StateUpdate(BasePost(ctx, node, exec_res), node)>>
    ELSE <<>>

\* A post that calls super().post(shared, prep_res, value) and returns
\* `action`; `before` is the context super().post was called with.
Commit(ctx, node, value, action) ==
    [ctx |-> BasePost(ctx, node, value), action |-> action, err |-> "", value |-> value,
     before |-> ctx]

\* The "previous value" most nodes read in prep: the last entry of results.
LastResultOr(ctx, dflt) ==
    IF ctx.results # <<>> THEN LastValue(ctx.results) ELSE dflt

(***************************************************************************)
(* StartNode (general.py); its post is BasePlatformNode.post.              *)
(***************************************************************************)
StartExec(node) ==
    IF node.data.initial_value # "" THEN Str(node.data.initial_value)
    ELSE Str("Flow Started")

StartRun(node, ctx) == Commit(ctx, node, StartExec(node), NoneAction)

(***************************************************************************)
(* MemoryNode (data.py), session storage, operations get, set, delete.     *)
(***************************************************************************)
MemoryFullKey(node) ==
    IF node.data.namespace # "" /\ node.data.key # ""
    THEN node.data.namespace \o "." \o node.data.key
    ELSE node.data.key

\* exec for op = "set": the configured value, else the previous result;
\* a string is parsed as JSON when it is JSON.
MemoryStoreValue(node, ctx) ==
    LET raw == IF node.data.value # "" THEN Str(node.data.value)
               ELSE LastResultOr(ctx, None)
    IN  IF raw.t = "str" THEN JsonLoadsOrKeep(raw.s) ELSE raw

MemoryRun(node, ctx) ==
    LET key == MemoryFullKey(node)
        op == node.data.operation
    IN  CASE op = "set" ->
               LET v == MemoryStoreValue(node, ctx)
                   c1 == [ctx EXCEPT !.memory = DictSet(ctx.memory, key, v)]
               IN  Commit(c1, node, v, NoneAction)
          [] op = "get" ->
               \* storage.get(full_key, None); a stored None reads as absent
               Commit(ctx, node, DictGetOr(ctx.memory, key, None), NoneAction)
          [] op = "delete" ->
               LET c1 == [ctx EXCEPT !.memory = DictDel(ctx.memory, key)]
               IN  Commit(c1, node, None, NoneAction)
          [] OTHER ->
               \* "Unknown operation": value None
               Commit(ctx, node, None, NoneAction)

\* The node keeps its keys in MEMORY_FILE (config `persistent`).
IsPersistentMemory(node) == node.type = "memory" /\ node.data.persistent

\* The lifecycle of a persistent Memory node: prep loads the file, exec
\* works on the loaded dict and saves it after set and delete.  `file` is
\* the content of the file; the result is that of MemoryRun and the
\* content of the file afterwards.
MemoryRunPersistent(node, ctx, file) ==
    LET key == MemoryFullKey(node)
        op == node.data.operation
    IN  CASE op = "set" ->
               LET v == MemoryStoreValue(node, ctx)
                   c1 == [ctx EXCEPT !.memory = DictSet(ctx.memory, key, v)]
               IN  [r |-> Commit(c1, node, v, NoneAction), file |-> DictSet(file, key, v)]
          [] op = "get" ->
               [r |-> Commit(ctx, node, DictGetOr(file, key, None), NoneAction), file |-> file]
          [] op = "delete" ->
               IF DictHas(file, key)
               THEN LET c1 == [ctx EXCEPT !.memory = DictDel(ctx.memory, key)]
                    IN  [r |-> Commit(c1, node, None, NoneAction), file |-> DictDel(file, key)]
               ELSE [r |-> Commit(ctx, node, None, NoneAction), file |-> file]
          [] OTHER ->
               [r |-> Commit(ctx, node, None, NoneAction), file |-> file]

(***************************************************************************)
(* LoopNode (control_flow.py).                                             *)
(***************************************************************************)
LoopKey(node) == "_loop_" \o node.id

\* list(range(n))
RangeList(n) == [i \in 1..(IF n > 0 THEN n ELSE 0) |-> IntV(i - 1)]

\* The item list LoopNode.prep materializes from the `items` parameter: a
\* JSON array as it is, a JSON integer n as range(n), any other JSON value
\* as a one-element list, and a text that is neither JSON nor an integer
\* as the empty list.
LoopItems(items) ==
    CASE items.form = "array" -> items.arr
      [] items.form = "int" -> RangeList(items.n)
      [] items.form = "scalar" -> <<items.v>>
      [] OTHER -> <<>>

LoopPrep(node, ctx) ==
    IF DictHas(ctx.state, LoopKey(node)) THEN ctx
    ELSE [ctx EXCEPT !.state =
              DictSet(ctx.state, LoopKey(node),
                      [items |-> LoopItems(node.data.items), index |-> 0,
                       loop_var |-> node.data.loop_var])]

LoopExec(prep_res) ==
    IF prep_res.index < Len(prep_res.items)
    THEN [continue |-> TRUE, current |-> prep_res.items[prep_res.index + 1],
          index |-> prep_res.index]
    ELSE [continue |-> FALSE, current |-> None, index |-> prep_res.index]

\* LoopNode.post that forgets `shared[loop_key]["index"] += 1`.
LoopPostKeepIndex(node, ctx, exec_res) ==
    LET key == LoopKey(node)
        loop_var == node.data.loop_var
    IN  IF exec_res.continue
        THEN LET mem1 == DictSet(ctx.memory, loop_var, exec_res.current)
                 mem2 == DictSet(mem1, loop_var \o "_index", IntV(exec_res.index))
             IN  Commit([ctx EXCEPT !.memory = mem2], node, exec_res.current, "loop")
        ELSE LET c1 == [ctx EXCEPT !.state = DictDel(ctx.state, key)]
             IN  Commit(c1, node, Str("loop_complete"), "done")

\* LoopNode.post that leaves shared[loop_key] in place on `done`.
LoopPostKeepsState(node, ctx, exec_res) ==
    LET key == LoopKey(node)
        loop_var == node.data.loop_var
    IN  IF exec_res.continue
        THEN LET mem1 == DictSet(ctx.memory, loop_var, exec_res.current)
                 mem2 == DictSet(mem1, loop_var \o "_index", IntV(exec_res.index))
                 st == DictGet(ctx.state, key)
                 c1 == [ctx EXCEPT !.memory = mem2,
                                   !.state = DictSet(ctx.state, key,
                                       [st EXCEPT !.index = st.index + 1])]
             IN  Commit(c1, node, exec_res.current, "loop")
        ELSE Commit(ctx, node, Str("loop_complete"), "done")

LoopPost(node, ctx, exec_res) ==
    LET key == LoopKey(node)
        loop_var == node.data.loop_var
    IN  IF exec_res.continue
        THEN LET mem1 == DictSet(ctx.memory, loop_var, exec_res.current)
                 mem2 == DictSet(mem1, loop_var \o "_index", IntV(exec_res.index))
                 st == DictGet(ctx.state, key)
                 c1 == [ctx EXCEPT !.memory = mem2,
                                   !.state = DictSet(ctx.state, key,
                                       [st EXCEPT !.index = st.index + 1])]
             IN  Commit(c1, node, exec_res.current, "loop")
        ELSE LET c1 == [ctx EXCEPT !.state = DictDel(ctx.state, key)]
             IN  Commit(c1, node, Str("loop_complete"), "done")

LoopRun(node, ctx) ==
    LET c1 == LoopPrep(node, ctx)
    IN  LoopPost(node, c1, LoopExec(DictGet(c1.state, LoopKey(node))))

(***************************************************************************)
(* WhileNode (control_flow.py).                                            *)
(***************************************************************************)
WhileKey(node) == "_while_" \o node.id

\* context = {"iteration": n}; context.update(shared["memory"]);
\* context["input"] = the last result, when there is one.
WhileContext(node, ctx) ==
    LET base == <<[k |-> "iteration",
                   v |-> IntV(DictGet(ctx.state, WhileKey(node)).iteration)]>>
        withMemory == DictUpdate(base, ctx.memory)
    IN  IF ctx.results # <<>>
        THEN DictSet(withMemory, "input", LastValue(ctx.results))
        ELSE withMemory

WhilePrep(node, ctx) ==
    IF DictHas(ctx.state, WhileKey(node)) THEN ctx
    ELSE [ctx EXCEPT !.state =
              DictSet(ctx.state, WhileKey(node), [iteration |-> 0])]

\* Values Python orders against an int with >= and <.
IsNumber(v) == v.t \in {"int", "bool"}

NumberOf(v) == IF v.t = "int" THEN v.i ELSE IF v.b THEN 1 ELSE 0

\* int(cfg.get("max_iterations", 100)): an int, or a numeral string;
\* anything else raises.
IntParses(v) == v.t = "int" \/ (v.t = "str" /\ IsNumeral(v.s))

IntOf(v) == IF v.t = "int" THEN v.i ELSE NumeralValue(v.s)

\* eval(condition, {"__builtins__": {}}, context) for the conditions of the
\* model: "true", "false" or "error" (the evaluation raised).
\*   True, False            the literals
\*   iteration < 1          raises when `iteration` is no number
\*   flag                   a bare name: raises when the name is undefined
\*   input != 'stop'        raises when there is no previous result
EvalCondition(condition, context) ==
    LET tf(b) == IF b THEN "true" ELSE "false"
    IN  CASE condition = "True" -> "true"
          [] condition = "False" -> "false"
          [] condition = "iteration < 1" ->
               IF IsNumber(DictGet(context, "iteration"))
               THEN tf(NumberOf(DictGet(context, "iteration")) < 1)
               ELSE "error"
          [] condition = "flag" ->
               IF DictHas(context, "flag") THEN tf(Truthy(DictGet(context, "flag")))
               ELSE "error"
          [] condition = "input != 'stop'" ->
               IF DictHas(context, "input")
               THEN tf(DictGet(context, "input") # Str("stop"))
               ELSE "error"
          [] OTHER -> "error"

\* WhileNode.exec: "continue", "stop", or "raise" (an exception leaves exec:
\* int() of the parameter, or the comparison with the cap, failed).
WhileExec(node, context) ==
    IF ~IntParses(node.data.max_iterations) THEN "raise"
    ELSE IF ~IsNumber(DictGet(context, "iteration")) THEN "raise"
    ELSE IF NumberOf(DictGet(context, "iteration")) >= IntOf(node.data.max_iterations)
         THEN "stop"
    ELSE IF EvalCondition(node.data.condition, context) = "true" THEN "continue"
    ELSE "stop"

WhilePost(node, ctx, continue) ==
    LET key == WhileKey(node)
    IN  IF continue
        THEN LET n == DictGet(ctx.state, key).iteration + 1
                 c1 == [ctx EXCEPT !.state = DictSet(ctx.state, key, [iteration |-> n])]
             IN  Commit(c1, node, IntV(n), "continue")
        ELSE LET c1 == [ctx EXCEPT !.state = DictDel(ctx.state, key)]
             IN  Commit(c1, node, Str("while_complete"), "done")

WhileRun(node, ctx) ==
    LET c1 == WhilePrep(node, ctx)
        res == WhileExec(node, WhileContext(node, c1))
    IN  IF res = "raise" THEN Raised(c1, "while_loop: exec raised")
        ELSE WhilePost(node, c1, res = "continue")

(***************************************************************************)
(* TryCatchNode (control_flow.py).                                         *)
(***************************************************************************)
\* The decimal text of a natural number below 100.
PyStrInt(n) == IF n < 10 THEN Numerals[n] ELSE Numerals[n \div 10] \o Numerals[n % 10]

\* repr(v) and str(v): they differ on strings only.
RECURSIVE PyRepr(_)
RECURSIVE PyReprItems(_, _)
PyReprItems(items, isMap) ==
    IF items = <<>> THEN ""
    ELSE LET h == IF isMap
                  THEN "'" \o Head(items).k \o "': " \o PyRepr(Head(items).v)
                  ELSE PyRepr(Head(items))
         IN  IF Len(items) = 1 THEN h
             ELSE h \o ", " \o PyReprItems(Tail(items), isMap)

PyRepr(v) ==
    CASE v.t = "none" -> "None"
      [] v.t = "str" -> "'" \o v.s \o "'"
      [] v.t = "int" -> PyStrInt(v.i)
      [] v.t = "bool" -> IF v.b THEN "True" ELSE "False"
      [] v.t = "map" -> "{" \o PyReprItems(v.m, TRUE) \o "}"
      [] v.t = "list" -> "[" \o PyReprItems(v.l, FALSE) \o "]"

PyStr(v) == IF v.t = "str" THEN v.s ELSE PyRepr(v)

\* pattern in input_str
Contains(s, p) ==
    \E i \in 1..(Len(s) - Len(p) + 1) : SubSeq(s, i, i + Len(p) - 1) = p

\* s.split(",")
RECURSIVE SplitComma(_)
SplitComma(s) ==
    LET commas == {i \in 1..Len(s) : SubSeq(s, i, i) = ","}
    IN  IF commas = {} THEN <<s>>
        ELSE LET i == CHOOSE c \in commas : \A d \in commas : c <= d
             IN  <<SubSeq(s, 1, i - 1)>> \o SplitComma(SubSeq(s, i + 1, Len(s)))

\* s.strip(), for texts whose only whitespace is the space
RECURSIVE Strip(_)
Strip(s) ==
    IF s = "" THEN s
    ELSE IF SubSeq(s, 1, 1) = " " THEN Strip(SubSeq(s, 2, Len(s)))
    ELSE IF SubSeq(s, Len(s), Len(s)) = " " THEN Strip(SubSeq(s, 1, Len(s) - 1))
    ELSE s

DefaultErrorPatterns == "Error,error,Exception,Failed,failed"

\* [p.strip() for p in error_patterns.split(",") if p.strip()]
ErrorPatterns(node) ==
    LET text == IF node.data.error_patterns.t = "none" THEN DefaultErrorPatterns
                ELSE node.data.error_patterns.s
        parts == SplitComma(text)
    IN  SelectSeq([i \in 1..Len(parts) |-> Strip(parts[i])], LAMBDA q : q # "")

\* An exec that converts every input to its string form, also a falsy one.
TryCatchExecStrAlways(node, input_val) ==
    LET input_str == PyStr(input_val)
        patterns == ErrorPatterns(node)
        is_error == \E i \in 1..Len(patterns) : Contains(input_str, patterns[i])
    IN  [is_error |-> is_error, value |-> input_val,
         error_message |-> IF is_error THEN Str(input_str) ELSE None]

TryCatchExec(node, input_val) ==
    LET input_str == IF Truthy(input_val) THEN PyStr(input_val) ELSE ""
        patterns == ErrorPatterns(node)
        is_error == \E i \in 1..Len(patterns) : Contains(input_str, patterns[i])
    IN  [is_error |-> is_error, value |-> input_val,
         error_message |-> IF is_error THEN Str(input_str) ELSE None]

TryCatchPost(node, ctx, exec_res) ==
    IF exec_res.is_error
    THEN Commit([ctx EXCEPT !.memory = DictSet(ctx.memory, "last_error",
                                                exec_res.error_message)],
                node, exec_res.error_message, "error")
    ELSE Commit(ctx, node, exec_res.value, "success")

TryCatchRun(node, ctx) ==
    TryCatchPost(node, ctx, TryCatchExec(node, LastResultOr(ctx, None)))

(***************************************************************************)
(* IfElseNode (control_flow.py); its post commits through                  *)
(* BasePlatformNode.post.                                                  *)
(***************************************************************************)
\* prep: the configured value when there is one, else the last result,
\* else "".
IfElsePrep(node, ctx) ==
    IF node.data.value # "" THEN Str(node.data.value)
    ELSE LastResultOr(ctx, Str(""))

\* eval(eval_condition, {"__builtins__": {}}, {"input": input}) after
\* {input} was replaced by repr(input), for the conditions of the model:
\* "true", "false" or "error" (the evaluation raised).
\*   True, False            the literals
\*   {input} == 'ok'        the repr of the input against a literal
\*   input > 1              raises when the input is no number
\*   flag                   a name that is not defined: raises
\*   1/0                    raises
IfElseEval(condition, input) ==
    LET tf(b) == IF b THEN "true" ELSE "false"
    IN  CASE condition = "True" -> "true"
          [] condition = "False" -> "false"
          [] condition = "{input} == 'ok'" -> tf(PyRepr(input) = "'ok'")
          [] condition = "input > 1" ->
               IF IsNumber(input) THEN tf(NumberOf(input) > 1) ELSE "error"
          [] OTHER -> "error"

\* An exec that answers True when the evaluation raised.
IfElseExecErrorIsTrue(node, input) == IfElseEval(node.data.condition, input) # "false"

\* exec: bool(result); False when the evaluation raised (lines 59-64).
IfElseExec(node, input) == IfElseEval(node.data.condition, input) = "true"

\* post (lines 66-70)
IfElseRun(node, ctx) ==
    LET res == IfElseExec(node, IfElsePrep(node, ctx))
    IN  Commit(ctx, node, BoolV(res), IF res THEN "true" ELSE "false")

(***************************************************************************)
(* SwitchNode (control_flow.py).                                           *)
(***************************************************************************)
\* prep: str() of the last result, "" when there is none.
SwitchPrep(ctx) == IF ctx.results # <<>> THEN PyStr(LastValue(ctx.results)) ELSE ""

CaseNames == <<"case_1", "case_2", "case_3">>

\* cfg.get(case_name, "").strip()
CaseValue(node, i) == Strip(node.data.cases[i])

\* An exec that compares without asking for a non-empty case value.
SwitchExecMatchesEmpty(node, input) ==
    LET input_val == Strip(input)
        hits == {i \in 1..3 : input_val = CaseValue(node, i)}
    IN  IF hits = {} THEN "default"
        ELSE CaseNames[CHOOSE i \in hits : \A j \in hits : i <= j]

\* exec: the first case whose value is non-empty and equals the input,
\* both stripped; "default" when there is none.
SwitchExec(node, input) ==
    LET input_val == Strip(input)
        hits == {i \in 1..3 : CaseValue(node, i) # "" /\ input_val = CaseValue(node, i)}
    IN  IF hits = {} THEN "default"
        ELSE CaseNames[CHOOSE i \in hits : \A j \in hits : i <= j]

\* post commits the case name and returns it as the action.
SwitchRun(node, ctx) ==
    LET res == SwitchExec(node, SwitchPrep(ctx))
    IN  Commit(ctx, node, Str(res), res)

(***************************************************************************)
(* MergeNode (control_flow.py): passes the most recent result through.     *)
(***************************************************************************)
MergePrep(ctx) == LastResultOr(ctx, None)

MergeRun(node, ctx) == Commit(ctx, node, MergePrep(ctx), NoneAction)

(***************************************************************************)
(* The node registry (node_registry.py) and the lifecycle of a node by     *)
(* its type.  "note" and "group" are registered classes that are no        *)
(* PocketFlow nodes: they have no set_params, prep, exec or post, so the   *)
(* walk raises AttributeError when it reaches one.                         *)
(***************************************************************************)
RegisteredTypes ==
    {"start", "cron", "llm", "debug", "file_read", "file_write", "pdf_read",
     "web_search", "web_fetch", "rss_read", "memory", "sqlite", "if_else",
     "switch", "loop", "while_loop", "merge", "try_catch", "delay",
     "json_dispatcher", "sub_workflow", "vector_memory", "note", "group"}

IsPlainClass(type) == type \in {"note", "group"}

RunLifecycle(node, ctx) ==
    CASE node.type = "start" -> StartRun(node, ctx)
      [] node.type = "memory" -> MemoryRun(node, ctx)
      [] node.type = "loop" -> LoopRun(node, ctx)
      [] node.type = "while_loop" -> WhileRun(node, ctx)
      [] node.type = "try_catch" -> TryCatchRun(node, ctx)
      [] node.type = "if_else" -> IfElseRun(node, ctx)
      [] node.type = "merge" -> MergeRun(node, ctx)
      [] node.type = "switch" -> SwitchRun(node, ctx)
      [] OTHER -> Raised(ctx, "AttributeError: no attribute 'set_params'")

(***************************************************************************)
(* build_graph (engine.py).                                                *)
(***************************************************************************)
\* The handles of the model and the edge name each one selects:
\* "out-<name>" selects <name>, no handle or any other text selects "default".
HandleNames ==
    [h \in {"", "out-default", "out-loop", "out-done", "out-continue", "out-alt",
            "out-success", "out-error", "out-true", "out-false", "out-case_1",
            "out-case_2", "loop"} |->
        CASE h = "out-default" -> "default"
          [] h = "out-loop" -> "loop"
          [] h = "out-done" -> "done"
          [] h = "out-continue" -> "continue"
          [] h = "out-alt" -> "alt"
          [] h = "out-success" -> "success"
          [] h = "out-error" -> "error"
          [] h = "out-true" -> "true"
          [] h = "out-false" -> "false"
          [] h = "out-case_1" -> "case_1"
          [] h = "out-case_2" -> "case_2"
          [] OTHER -> "default"]

EdgeName(edge) == HandleNames[edge.sourceHandle]

\* pf_nodes: the ids of the nodes whose type is registered.
PfNodeIds(wf) ==
    {wf.nodes[i].id : i \in {j \in 1..Len(wf.nodes) : wf.nodes[j].type \in RegisteredTypes}}

\* pf_nodes[id]: a later node of the same id replaces an earlier one.
PfNode(wf, id) ==
    LET idx == {i \in 1..Len(wf.nodes) :
                   wf.nodes[i].id = id /\ wf.nodes[i].type \in RegisteredTypes}
    IN  wf.nodes[CHOOSE i \in idx : \A j \in idx : j <= i]

\* successors_map[(source, edge_name)]: the targets in edge-declaration
\* order, of the edges whose two ends are both instantiated.
RECURSIVE TargetsOf(_, _, _, _)
TargetsOf(wf, edges, source, name) ==
    IF edges = <<>> THEN <<>>
    ELSE LET e == Head(edges)
             rest == TargetsOf(wf, Tail(edges), source, name)
         IN  IF /\ e.source = source
                /\ EdgeName(e) = name
                /\ e.source \in PfNodeIds(wf)
                /\ e.target \in PfNodeIds(wf)
             THEN <<e.target>> \o rest
             ELSE rest

SuccessorsMap(wf, source, name) == TargetsOf(wf, wf.edges, source, name)

\* in_degree[uid]: every edge whose target is uid counts.
InDegree(wf, id) == Cardinality({i \in 1..Len(wf.edges) : wf.edges[i].target = id})

\* The keys of pf_nodes in insertion order: the first place of each id.
RECURSIVE PfNodeOrder(_, _, _)
PfNodeOrder(wf, i, seen) ==
    IF i > Len(wf.nodes) THEN <<>>
    ELSE LET n == wf.nodes[i]
         IN  IF n.type \in RegisteredTypes /\ n.id \notin seen
             THEN <<n.id>> \o PfNodeOrder(wf, i + 1, seen \cup {n.id})
             ELSE PfNodeOrder(wf, i + 1, seen)

\* Roots over an in-degree that counts only the edges that were wired.
RootsOfWiredEdges(wf) ==
    SelectSeq(PfNodeOrder(wf, 1, {}),
              LAMBDA id : \A i \in 1..Len(wf.edges) :
                  ~(wf.edges[i].target = id /\ wf.edges[i].source \in PfNodeIds(wf)))

Roots(wf) == SelectSeq(PfNodeOrder(wf, 1, {}), LAMBDA id : InDegree(wf, id) = 0)

NoStartNode == "No start node found (cyclic or empty?)"

NoRef == [t |-> "none"]

NodeRef(id) == [t |-> "node", id |-> id]

\* build_graph's result: (flow, None) with the flow's start, or (None, error).
\* Flow(roots[0]) for one root, Flow(roots) - a flow whose start is a list -
\* for several.
BuildGraph(wf) ==
    LET roots == Roots(wf)
    IN  IF roots = <<>> THEN [start |-> NoRef, error |-> NoStartNode]
        ELSE IF Len(roots) = 1 THEN [start |-> NodeRef(roots[1]), error |-> ""]
        ELSE [start |-> [t |-> "roots", roots |-> roots], error |-> ""]

\* Plain PocketFlow wiring, without the BranchNode: each `source >> target`
\* overwrites the successor of that edge name, so the last target wins.
NextRefLastWins(wf, id, action) ==
    LET name == IF action = NoneAction THEN "default" ELSE action
        targets == SuccessorsMap(wf, id, name)
    IN  IF targets = <<>> THEN NoRef ELSE NodeRef(targets[Len(targets)])

\* A walk that takes the `default` edge when the action has no edge.
NextRefFallsBack(wf, id, action) ==
    LET name == IF action = NoneAction THEN "default" ELSE action
        named == SuccessorsMap(wf, id, name)
        targets == IF named = <<>> THEN SuccessorsMap(wf, id, "default") ELSE named
    IN  IF targets = <<>> THEN NoRef
        ELSE IF Len(targets) = 1 THEN NodeRef(targets[1])
        ELSE [t |-> "branch", targets |-> targets]

\* The successor the walk takes after `id` returned `action`:
\* curr.successors.get(action or "default").  One target is wired directly,
\* several are wrapped in a BranchNode.
NextRef(wf, id, action) ==
    LET name == IF action = NoneAction THEN "default" ELSE action
        targets == SuccessorsMap(wf, id, name)
    IN  IF targets = <<>> THEN NoRef
        ELSE IF Len(targets) = 1 THEN NodeRef(targets[1])
        ELSE [t |-> "branch", targets |-> targets]

(***************************************************************************)
(* HumanInputNode (nodes/human.py).  The node is in no registry: it is    *)
(* driven directly, prep, exec on a worker thread, then post, as          *)
(* verify_hitl_e2e.py drives it.                                           *)
(***************************************************************************)
\* int(cfg.get("timeout", 0) or 0)
HumanTimeout(node) ==
    IF Truthy(node.data.timeout) THEN IntOf(node.data.timeout) ELSE 0

HumanPrep(node, ctx) ==
    [timeout |-> HumanTimeout(node), input_val |-> LastResultOr(ctx, None)]

\* The entry exec stores in pending_requests under its request id; `event`
\* is the flag of the threading.Event.
HumanEntry(node) == [event |-> FALSE, response |-> None, node_id |-> node.id]

\* An exec that treats the timeout as an empty response.
HumanExecDefaultsOnTimeout(signaled, response_data) ==
    <<[k |-> "data", v |-> IF signaled THEN response_data ELSE None],
      [k |-> "approved",
       v |-> IF signaled /\ response_data.t = "map"
             THEN DictGetOr(response_data.m, "approved", BoolV(TRUE))
             ELSE BoolV(TRUE)],
      [k |-> "success", v |-> BoolV(TRUE)]>>

\* What exec returns once wait() has returned `signaled` and, when it was
\* signaled, the response slot held response_data.
HumanExecResult(signaled, response_data) ==
    IF ~signaled
    THEN <<[k |-> "error", v |-> Str("Timeout")],
           [k |-> "data", v |-> None],
           [k |-> "approved", v |-> BoolV(FALSE)]>>
    ELSE <<[k |-> "data", v |-> response_data],
           [k |-> "approved",
            v |-> IF response_data.t = "map"
                  THEN DictGetOr(response_data.m, "approved", BoolV(TRUE))
                  ELSE BoolV(TRUE)],
           [k |-> "success", v |-> BoolV(TRUE)]>>

\* A post whose memory keeps the values it already holds.
HumanPostKeepsMemory(node, ctx, exec_res) ==
    IF Truthy(DictGetOr(exec_res, "success", None))
    THEN LET data == DictGet(exec_res, "data")
             c1 == IF data.t = "map"
                   THEN [ctx EXCEPT !.memory = DictUpdate(data.m, ctx.memory)]
                   ELSE ctx
         IN  Commit(c1, node, data,
                    IF Truthy(DictGetOr(exec_res, "approved", None))
                    THEN "approved" ELSE "rejected")
    ELSE Commit(ctx, node, DictGetOr(exec_res, "error", Str("User input failed")),
                NoneAction)

\* A post that routes to `rejected` only on the boolean false.
HumanPostRejectsOnlyFalse(node, ctx, exec_res) ==
    IF Truthy(DictGetOr(exec_res, "success", None))
    THEN LET data == DictGet(exec_res, "data")
             c1 == IF data.t = "map"
                   THEN [ctx EXCEPT !.memory = DictUpdate(ctx.memory, data.m)]
                   ELSE ctx
         IN  Commit(c1, node, data,
                    IF DictGetOr(exec_res, "approved", None) = BoolV(FALSE)
                    THEN "rejected" ELSE "approved")
    ELSE Commit(ctx, node, DictGetOr(exec_res, "error", Str("User input failed")),
                NoneAction)

HumanPost(node, ctx, exec_res) ==
    IF Truthy(DictGetOr(exec_res, "success", None))
    THEN LET data == DictGet(exec_res, "data")
             c1 == IF data.t = "map"
                   THEN [ctx EXCEPT !.memory = DictUpdate(ctx.memory, data.m)]
                   ELSE ctx
         IN  Commit(c1, node, data,
                    IF Truthy(DictGetOr(exec_res, "approved", None))
                    THEN "approved" ELSE "rejected")
    ELSE Commit(ctx, node, DictGetOr(exec_res, "error", Str("User input failed")),
                NoneAction)

(***************************************************************************)
(* The state.                                                              *)
(***************************************************************************)
VARIABLES
    workflow,   \* the Workflow handed to run_workflow
    store,      \* the workflow files under backend/workflows: name -> Workflow
    pc,         \* run_workflow: "init", "running", "returned" or "raised"
    frames,     \* the call stack of the walk, innermost last
    contexts,   \* the shared dicts of the walk: the run's, then the sub-runs'
    exc,        \* the exception that is propagating ("" for none)
    outcome,    \* what run_workflow returned or raised
    log,        \* history: the lifecycles that ended, oldest first
    lastSub,    \* history: the SubWorkflowNode.exec that ended last
    pending_requests,   \* human.pending_requests: request id -> entry
    threads,    \* the worker threads that run a HumanInputNode
    resumes,    \* the callers that answer a request (stored: history)
    nextRequest, \* the request ids handed out so far, plus one
    sink,       \* the Event Sink of the run: a member of Sinks
    events,     \* what the sink has received, oldest first
    workflows_dir,  \* the files of SchedulerService.workflows_dir: name -> content
    jobs,       \* the jobs of SchedulerService.scheduler: id -> job
    started,    \* SchedulerService.start has run
    fires,      \* history: the calls of execute_job that ended, oldest first
    requests,   \* the save and delete requests being served, each with the
                \* place of its refresh_jobs call
    runs,       \* the run requests being served, each with the place of its
                \* flow.run call
    memory_file, \* the content of MemoryNode.MEMORY_FILE, a dict
    previous,   \* history: outcome and log of the run before this one
    workspaces_dir,    \* the tree under WorkspaceManager.workspaces_dir:
                       \* its directories and its files, by path
    current_workspace, \* WorkspaceManager.current_workspace, a name
    reply,      \* history: the last workspace or workflow request and its answer
    saved,      \* history: the workflows saved, each with the workspace
                \* that was active
    llm,        \* an LLM node before and after prep: the Start node's and its
                \* own config, the shared dict, the attributes prep set
    writers,    \* concurrent runs, each at a persistent Memory node
    timers      \* the scheduler's clock: the time left to each job's next
                \* fire, and history: the jobs that have fired

evars == <<workflow, store, pc, frames, contexts, exc, outcome, log, lastSub>>

hvars == <<pending_requests, threads, resumes, nextRequest>>

svars == <<sink, events>>

kvars == <<workflows_dir, jobs, started, fires, requests>>

wvars == <<workspaces_dir, current_workspace, reply, saved>>

zvars == <<llm, writers, timers>>

xvars == <<runs, memory_file, previous, wvars, zvars>>

vars == <<evars, hvars, svars, kvars, xvars>>

Top(stack) == stack[Len(stack)]

Pop(stack) == SubSeq(stack, 1, Len(stack) - 1)

SetTop(stack, v) == [stack EXCEPT ![Len(stack)] = v]

FlowFrame(wf, start) == [f |-> "flow", wf |-> wf, curr |-> start]

\* One entry of the history: node `id` ended a lifecycle against the context
\* at depth d with transition `act` ("<raise>" when it raised), having
\* handed `val` to BasePlatformNode.post.
LogEntry(id, d, act, val) == [id |-> id, d |-> d, act |-> act, val |-> val]

(***************************************************************************)
(* run_workflow (engine.py): compile, then walk on a worker thread.        *)
(***************************************************************************)
\* A run_workflow whose shared_state outlives the call.
RunWorkflowStartKeepsShared ==
    /\ pc = "init"
    /\ LET g == BuildGraph(workflow)
       IN  IF g.error # ""
           THEN /\ pc' = "raised"
                /\ outcome' = [status |-> "raised", error |-> g.error]
                /\ UNCHANGED <<frames, contexts>>
           ELSE /\ pc' = "running"
                /\ frames' = <<FlowFrame(workflow, g.start)>>
                /\ contexts' = IF contexts = <<>> THEN <<EmptyContext>> ELSE contexts
                /\ UNCHANGED outcome
    /\ UNCHANGED <<xvars, kvars, hvars, svars, workflow, store, exc, log, lastSub>>

\* lines 126-138: a compile error is raised to the caller before the try.
RunWorkflowStart ==
    /\ pc = "init"
    /\ LET g == BuildGraph(workflow)
       IN  IF g.error # ""
           THEN /\ pc' = "raised"
                /\ outcome' = [status |-> "raised", error |-> g.error]
                /\ UNCHANGED <<frames, contexts>>
           ELSE /\ pc' = "running"
                /\ frames' = <<FlowFrame(workflow, g.start)>>
                /\ contexts' = <<EmptyContext>>
                /\ UNCHANGED outcome
    /\ UNCHANGED <<xvars, kvars, hvars, svars, workflow, store, exc, log, lastSub>>

\* Flow._orch's loop body for a node that is no SubWorkflowNode:
\* curr._run(shared), then curr = successors.get(action or "default").
\* A start that is a list of roots, or a node that is no PocketFlow node,
\* raises AttributeError at curr.set_params.
OrchStep ==
    /\ pc = "running" /\ exc = "" /\ frames # <<>>
    /\ Len(log) < MaxSteps
    /\ LET fr == Top(frames)
       IN  /\ fr.f = "flow"
           /\ fr.curr.t \in {"node", "roots"}
           /\ IF fr.curr.t = "roots"
              THEN /\ exc' = "AttributeError: 'list' object has no attribute 'set_params'"
                   /\ log' = Append(log, LogEntry("<roots>", Len(contexts), "<raise>", None))
                   /\ UNCHANGED <<frames, contexts, events>>
              ELSE LET node == PfNode(fr.wf, fr.curr.id)
                       r == RunLifecycle(node, Top(contexts))
                   IN  /\ node.type # "sub_workflow"
                       /\ ~IsPersistentMemory(node)
                       /\ contexts' = SetTop(contexts, r.ctx)
                       /\ exc' = r.err
                       /\ events' = IF r.err # "" THEN events
                                    ELSE events \o BasePostEvents(sink, r.before, node, r.value)
                       /\ log' = Append(log, LogEntry(node.id, Len(contexts),
                                    IF r.err # "" THEN "<raise>" ELSE r.action, r.value))
                       /\ frames' = IF r.err # "" THEN frames
                                    ELSE SetTop(frames,
                                           [fr EXCEPT !.curr = NextRef(fr.wf, node.id, r.action)])
    /\ UNCHANGED <<xvars, kvars, hvars, sink, workflow, store, pc, outcome, lastSub>>

\* Flow._orch's loop body for a Memory node with `persistent`: as
\* OrchStep, and the file is read and written.
OrchStepPersistent ==
    /\ pc = "running" /\ exc = "" /\ frames # <<>>
    /\ Len(log) < MaxSteps
    /\ LET fr == Top(frames)
       IN  /\ fr.f = "flow"
           /\ fr.curr.t = "node"
           /\ LET node == PfNode(fr.wf, fr.curr.id)
                  p == MemoryRunPersistent(node, Top(contexts), memory_file)
              IN  /\ IsPersistentMemory(node)
                  /\ contexts' = SetTop(contexts, p.r.ctx)
                  /\ memory_file' = p.file
                  /\ events' = events \o BasePostEvents(sink, p.r.before, node, p.r.value)
                  /\ log' = Append(log, LogEntry(node.id, Len(contexts), p.r.action, p.r.value))
                  /\ frames' = SetTop(frames,
                                  [fr EXCEPT !.curr = NextRef(fr.wf, node.id, p.r.action)])
    /\ UNCHANGED <<kvars, hvars, sink, workflow, store, pc, exc, outcome, lastSub, runs, previous, wvars, zvars>>

\* The walk reaches a BranchNode: prep, and exec begins.
BranchEnter ==
    /\ pc = "running" /\ exc = "" /\ frames # <<>>
    /\ LET fr == Top(frames)
       IN  /\ fr.f = "flow"
           /\ fr.curr.t = "branch"
           /\ frames' = Append(frames, [f |-> "branch", wf |-> fr.wf,
                                         targets |-> fr.curr.targets, idx |-> 0])
    /\ UNCHANGED <<xvars, kvars, hvars, svars, workflow, store, pc, contexts, exc, outcome, log, lastSub>>

\* A BranchNode.exec that runs the first of its nodes only.
BranchLaunchOnce ==
    /\ pc = "running" /\ exc = "" /\ frames # <<>>
    /\ LET fr == Top(frames)
       IN  /\ fr.f = "branch"
           /\ fr.idx < Len(fr.targets)
           /\ frames' = Append(SetTop(frames, [fr EXCEPT !.idx = Len(fr.targets)]),
                               FlowFrame(fr.wf, NodeRef(fr.targets[1])))
    /\ UNCHANGED <<xvars, kvars, hvars, svars, workflow, store, pc, contexts, exc, outcome, log, lastSub>>

\* BranchNode.exec, one turn of the loop: Flow(node).run(prep_res).
BranchLaunch ==
    /\ pc = "running" /\ exc = "" /\ frames # <<>>
    /\ LET fr == Top(frames)
       IN  /\ fr.f = "branch"
           /\ fr.idx < Len(fr.targets)
           /\ frames' = Append(SetTop(frames, [fr EXCEPT !.idx = fr.idx + 1]),
                               FlowFrame(fr.wf, NodeRef(fr.targets[fr.idx + 1])))
    /\ UNCHANGED <<xvars, kvars, hvars, svars, workflow, store, pc, contexts, exc, outcome, log, lastSub>>

\* BranchNode.exec returns, post returns None and commits nothing; the
\* BranchNode has no successors, so the flow that reached it ends.
BranchReturn ==
    /\ pc = "running" /\ exc = "" /\ frames # <<>>
    /\ LET fr == Top(frames)
           below == Pop(frames)
       IN  /\ fr.f = "branch"
           /\ fr.idx = Len(fr.targets)
           /\ frames' = SetTop(below, [Top(below) EXCEPT !.curr = NoRef])
    /\ UNCHANGED <<xvars, kvars, hvars, svars, workflow, store, pc, contexts, exc, outcome, log, lastSub>>

\* Flow._orch leaves its loop: the flow returns to whoever ran it.
FlowReturn ==
    /\ pc = "running" /\ exc = "" /\ frames # <<>>
    /\ Top(frames).f = "flow"
    /\ Top(frames).curr.t = "none"
    /\ frames' = Pop(frames)
    /\ UNCHANGED <<xvars, kvars, hvars, svars, workflow, store, pc, contexts, exc, outcome, log, lastSub>>

(***************************************************************************)
(* SubWorkflowNode (control_flow.py).  exec runs the sub-workflow inside a *)
(* try/except on a shared dict of its own; post is BasePlatformNode.post.  *)
(***************************************************************************)
SubNoName == Str("Error: No workflow name provided")

SubNotFound == Str("Error: Workflow not found")

SubBuildError == Str("Error building sub-workflow")

SubExecError == Str("Error executing sub-workflow")

\* The error string exec returns without running anything, or None when
\* the sub-workflow is loaded and compiled.
SubWorkflowRefusal(node) ==
    IF node.data.workflow_name = "" THEN SubNoName
    ELSE IF node.data.workflow_name \notin DOMAIN store THEN SubNotFound
    ELSE IF BuildGraph(store[node.data.workflow_name]).error # "" THEN SubBuildError
    ELSE None

\* A sub-run that is started on the parent's results.
SubSharedInheritsResults(node, parent) ==
    [results |-> parent.results,
     memory |-> IF node.data.pass_memory THEN parent.memory ELSE <<>>,
     state |-> <<>>]

\* sub_shared = {"results": {}}, with a copy of the parent's memory when
\* pass_memory is set.
SubShared(node, parent) ==
    [results |-> <<>>,
     memory |-> IF node.data.pass_memory THEN parent.memory ELSE <<>>,
     state |-> <<>>]

\* exec without the merge of lines 495-499.
SubNeverMerges(node, parent, sub) == parent

\* After flow.run(sub_shared): the parent's memory, updated with the
\* sub-run's memory when pass_memory is set.
SubMergeMemory(node, parent, sub) ==
    IF node.data.pass_memory
    THEN [parent EXCEPT !.memory = DictUpdate(parent.memory, sub.memory)]
    ELSE parent

\* The node at which the innermost flow stands.
CurrentNode == PfNode(Top(frames).wf, Top(frames).curr.id)

AtSubWorkflowNode ==
    /\ pc = "running" /\ exc = "" /\ frames # <<>>
    /\ Top(frames).f = "flow"
    /\ Top(frames).curr.t = "node"
    /\ CurrentNode.type = "sub_workflow"

\* exec returns an error string at once (lines 460-466, 481-482); post.
SubWorkflowRefuse ==
    /\ AtSubWorkflowNode
    /\ Len(log) < MaxSteps
    /\ SubWorkflowRefusal(CurrentNode) # None
    /\ LET node == CurrentNode
           fr == Top(frames)
       IN  /\ contexts' = SetTop(contexts,
                              BasePost(Top(contexts), node, SubWorkflowRefusal(node)))
           /\ frames' = SetTop(frames,
                            [fr EXCEPT !.curr = NextRef(fr.wf, node.id, NoneAction)])
           /\ events' = events \o BasePostEvents(sink, Top(contexts), node,
                                                  SubWorkflowRefusal(node))
           /\ log' = Append(log, LogEntry(node.id, Len(contexts), NoneAction,
                                         SubWorkflowRefusal(node)))
    /\ UNCHANGED <<xvars, kvars, hvars, sink, workflow, store, pc, exc, outcome, lastSub>>

\* exec builds the sub-workflow's graph and calls flow.run(sub_shared).
SubWorkflowEnter ==
    /\ AtSubWorkflowNode
    /\ Len(contexts) < MaxDepth
    /\ SubWorkflowRefusal(CurrentNode) = None
    /\ LET node == CurrentNode
           sub == store[node.data.workflow_name]
       IN  /\ frames' = frames \o <<[f |-> "sub", node |-> node],
                                    FlowFrame(sub, BuildGraph(sub).start)>>
           /\ contexts' = Append(contexts, SubShared(node, Top(contexts)))
    /\ UNCHANGED <<xvars, kvars, hvars, svars, workflow, store, pc, exc, outcome, log, lastSub>>

\* flow.run returned: merge the memory back, return the sub-run's results;
\* post commits them in the parent's results.
SubWorkflowReturn ==
    /\ pc = "running" /\ exc = "" /\ frames # <<>>
    /\ Top(frames).f = "sub"
    /\ LET node == Top(frames).node
           sub == Top(contexts)
           parent == Top(Pop(contexts))
           below == Pop(frames)
           fr == Top(below)
       IN  /\ contexts' = SetTop(Pop(contexts),
                              BasePost(SubMergeMemory(node, parent, sub), node,
                                       MapV(sub.results)))
           /\ frames' = SetTop(below,
                            [fr EXCEPT !.curr = NextRef(fr.wf, node.id, NoneAction)])
           /\ log' = Append(log, LogEntry(node.id, Len(contexts) - 1, NoneAction,
                                         MapV(sub.results)))
           /\ events' = events \o BasePostEvents(sink, SubMergeMemory(node, parent, sub),
                                                  node, MapV(sub.results))
           /\ lastSub' = [node |-> node, d |-> Len(contexts) - 1, raised |-> FALSE,
                          before |-> parent.memory, sub |-> sub.memory]
    /\ UNCHANGED <<xvars, kvars, hvars, sink, workflow, store, pc, exc, outcome>>

\* except Exception (lines 501-504): the sub-run raised; exec returns an
\* error string and nothing is merged.
SubWorkflowCatch ==
    /\ pc = "running" /\ exc # "" /\ frames # <<>>
    /\ Top(frames).f = "sub"
    /\ LET node == Top(frames).node
           parent == Top(Pop(contexts))
           below == Pop(frames)
           fr == Top(below)
       IN  /\ contexts' = SetTop(Pop(contexts), BasePost(parent, node, SubExecError))
           /\ frames' = SetTop(below,
                            [fr EXCEPT !.curr = NextRef(fr.wf, node.id, NoneAction)])
           /\ log' = Append(log, LogEntry(node.id, Len(contexts) - 1, NoneAction,
                                         SubExecError))
           /\ lastSub' = [node |-> node, d |-> Len(contexts) - 1, raised |-> TRUE,
                          before |-> parent.memory, sub |-> Top(contexts).memory]
           /\ events' = events \o BasePostEvents(sink, parent, node, SubExecError)
    /\ exc' = ""
    /\ UNCHANGED <<xvars, kvars, hvars, sink, workflow, store, pc, outcome>>

(***************************************************************************)
(* Exceptions and the end of run_workflow.                                 *)
(***************************************************************************)
\* An exception leaves a flow or a BranchNode.
Unwind ==
    /\ pc = "running" /\ exc # "" /\ frames # <<>>
    /\ Top(frames).f \in {"flow", "branch"}
    /\ frames' = Pop(frames)
    /\ UNCHANGED <<xvars, kvars, hvars, svars, workflow, store, pc, contexts, exc, outcome, log, lastSub>>

\* lines 140-141
RunWorkflowReturn ==
    /\ pc = "running" /\ exc = "" /\ frames = <<>>
    /\ pc' = "returned"
    /\ outcome' = [status |-> "completed", results |-> contexts[1].results]
    /\ UNCHANGED <<xvars, kvars, hvars, svars, workflow, store, frames, contexts, exc, log, lastSub>>

\* A run_workflow without the except clause: the error reaches the caller.
RunWorkflowExceptReraises ==
    /\ pc = "running" /\ exc # "" /\ frames = <<>>
    /\ pc' = "raised"
    /\ outcome' = [status |-> "raised", error |-> exc]
    /\ UNCHANGED <<xvars, kvars, hvars, svars, workflow, store, frames, contexts, exc, log, lastSub>>

\* lines 142-146
RunWorkflowExcept ==
    /\ pc = "running" /\ exc # "" /\ frames = <<>>
    /\ pc' = "returned"
    /\ outcome' = [status |-> "error", error |-> exc]
    /\ UNCHANGED <<xvars, kvars, hvars, svars, workflow, store, frames, contexts, exc, log, lastSub>>

(***************************************************************************)
(* The workflows of the model.                                             *)
(***************************************************************************)
Ids == [i \in 1..6 |-> CASE i = 1 -> "n1" [] i = 2 -> "n2" [] i = 3 -> "n3"
                         [] i = 4 -> "n4" [] i = 5 -> "n5" [] i = 6 -> "n6"]

Keys == [i \in 1..6 |-> CASE i = 1 -> "k1" [] i = 2 -> "k2" [] i = 3 -> "k3"
                          [] i = 4 -> "k4" [] i = 5 -> "k5" [] i = 6 -> "k6"]

Letters == [i \in 1..6 |-> CASE i = 1 -> "a" [] i = 2 -> "b" [] i = 3 -> "c"
                             [] i = 4 -> "d" [] i = 5 -> "e" [] i = 6 -> "f"]

Edge(source, target, handle) ==
    [source |-> source, target |-> target, sourceHandle |-> handle]

StartCfg(id, label) ==
    [id |-> id, type |-> "start", label |-> label, data |-> [initial_value |-> ""]]

StartValueCfg(id, initial_value) ==
    [id |-> id, type |-> "start", label |-> "", data |-> [initial_value |-> initial_value]]

MemoryCfg(id, label, op, key, value) ==
    [id |-> id, type |-> "memory", label |-> label,
     data |-> [key |-> key, value |-> value, operation |-> op, namespace |-> "",
               persistent |-> FALSE]]

PersistentMemoryCfg(id, op, key, value) ==
    [MemoryCfg(id, "", op, key, value) EXCEPT !.data.persistent = TRUE]

LoopCfg(id, label, items, loop_var) ==
    [id |-> id, type |-> "loop", label |-> label,
     data |-> [items |-> items, loop_var |-> loop_var]]

WhileCfg(id, label, condition, max_iterations) ==
    [id |-> id, type |-> "while_loop", label |-> label,
     data |-> [condition |-> condition, max_iterations |-> max_iterations]]

SubCfg(id, label, name, pass_memory) ==
    [id |-> id, type |-> "sub_workflow", label |-> label,
     data |-> [workflow_name |-> name, pass_memory |-> pass_memory]]

TryCatchCfg(id, label, error_patterns) ==
    [id |-> id, label |-> label, type |-> "try_catch",
     data |-> [error_patterns |-> error_patterns]]

OtherCfg(id, label, type) == [id |-> id, type |-> type, label |-> label, data |-> <<>>]

NoStore == [n \in {} |-> <<>>]

\* Graphs: up to MaxNodes nodes, each a Memory node that sets its own key
\* or a node of an unknown type, and up to MaxEdges default edges between
\* them, in every order.
GraphKinds == {"memory", "unknown_type"}

GraphNode(i, kind) ==
    IF kind = "memory" THEN MemoryCfg(Ids[i], "", "set", Keys[i], "1")
    ELSE OtherCfg(Ids[i], "", kind)

GraphEdges(k) == {Edge(Ids[i], Ids[j], "") : i, j \in 1..k}

\* k nodes of the given kinds, joined by the edges es in that order.
GraphWorkflow(k, kinds, es) ==
    [nodes |-> [i \in 1..k |-> GraphNode(i, kinds[i])], edges |-> es]

\* One node of each modelled type and no edges, under three labels.
SingleNodes(label) ==
    {StartCfg("n1", label), MemoryCfg("n1", label, "set", "k1", "1"),
     MemoryCfg("n1", label, "get", "k1", ""),
     LoopCfg("n1", label, [form |-> "array", arr |-> <<Str("a")>>], "item"),
     LoopCfg("n1", label, [form |-> "text"], "item"),
     WhileCfg("n1", label, "True", IntV(1)), WhileCfg("n1", label, "True", Str("many")),
     SubCfg("n1", label, "", TRUE), SubCfg("n1", label, "missing", TRUE),
     OtherCfg("n1", label, "note"), OtherCfg("n1", label, "unknown_type")}

SingleFamily ==
    {[nodes |-> <<n>>, edges |-> <<>>] : n \in UNION {SingleNodes(l) : l \in {"", "n1", "A"}}}

\* The bodies a loop is given: one node that runs after each `loop` or
\* `continue` and leads back to the loop node.
BodyNodes ==
    {StartCfg("n3", ""), StartCfg("n3", "L"),
     MemoryCfg("n3", "", "set", "item", "z"),
     MemoryCfg("n3", "", "set", "iteration", "0"),
     MemoryCfg("n3", "", "set", "iteration", "x"),
     MemoryCfg("n3", "", "set", "flag", "1"),
     MemoryCfg("n3", "", "set", "flag", "0"),
     MemoryCfg("n3", "", "set", "k3", "stop")}

LoopShape(loopNode, body, handle) ==
    [nodes |-> <<StartCfg("n1", ""), loopNode, body, MemoryCfg("n4", "", "get", "item", "")>>,
     edges |-> <<Edge("n1", "n2", ""), Edge("n2", "n3", handle), Edge("n3", "n2", ""),
                 Edge("n2", "n4", "out-done")>>]

LoopItemConfigs ==
    {[form |-> "array", arr |-> [i \in 1..n |-> Str(Letters[i])]] : n \in 0..MaxItems}
    \cup {[form |-> "int", n |-> n] : n \in (-1)..MaxItems}
    \cup {[form |-> "scalar", v |-> Str("a")], [form |-> "text"]}

LoopFamily ==
    {LoopShape(LoopCfg("n2", label, items, var), body, "out-loop") :
        label \in {"", "L"}, items \in LoopItemConfigs, var \in {"item", "iteration"},
        body \in BodyNodes}

Conditions == {"True", "False", "iteration < 1", "flag", "input != 'stop'", "1/0"}

MaxIterationConfigs == {IntV(n) : n \in 0..MaxIter} \cup {Str("1"), Str("many")}

WhileFamily ==
    {LoopShape(WhileCfg("n2", "", cond, max), body, "out-continue") :
        cond \in Conditions, max \in MaxIterationConfigs, body \in BodyNodes}

\* A producer, then a TryCatch node whose two outputs lead to two Memory
\* nodes; and a TryCatch node alone.
TryProducers ==
    {StartValueCfg("n1", "Error: x"), StartValueCfg("n1", "ok"), StartValueCfg("n1", ""),
     StartValueCfg("n1", "it failed, no"),
     MemoryCfg("n1", "", "set", "k1", "0"), MemoryCfg("n1", "", "set", "k1", "7"),
     MemoryCfg("n1", "", "get", "k1", ""), MemoryCfg("n1", "", "delete", "k1", "")}

TryPatternConfigs ==
    {None, Str("Error"), Str("x, failed ,"), Str(""), Str(" , "), Str("0"),
     Str("None"), Str("7,ok")}

TryFamily ==
    {[nodes |-> <<prod, TryCatchCfg("n2", label, pats),
                  MemoryCfg("n3", "", "set", "went", "success"),
                  MemoryCfg("n4", "", "set", "went", "error")>>,
      edges |-> <<Edge("n1", "n2", ""), Edge("n2", "n3", "out-success"),
                  Edge("n2", "n4", "out-error")>>] :
        prod \in TryProducers, label \in {"", "T"}, pats \in TryPatternConfigs}
    \cup {[nodes |-> <<TryCatchCfg("n1", "", pats)>>, edges |-> <<>>] :
             pats \in TryPatternConfigs}

\* Sub-workflows: a parent that sets a key, calls the stored workflow
\* "child" (or names none, or a missing one) and reads a key afterwards.
ChildWorkflows ==
    {[nodes |-> <<MemoryCfg("n1", "", "set", "k1", "1")>>, edges |-> <<>>],
     [nodes |-> <<MemoryCfg("n1", "", "set", "p", "2")>>, edges |-> <<>>],
     [nodes |-> <<MemoryCfg("n1", "", "delete", "p", "")>>, edges |-> <<>>],
     [nodes |-> <<MemoryCfg("n1", "", "get", "p", ""), MemoryCfg("n2", "", "set", "k2", "")>>,
      edges |-> <<Edge("n1", "n2", "")>>],
     [nodes |-> <<MemoryCfg("n1", "", "set", "k1", "1"),
                  WhileCfg("n2", "", "True", Str("many"))>>,
      edges |-> <<Edge("n1", "n2", "")>>],
     [nodes |-> <<MemoryCfg("n1", "", "set", "k1", "1"), StartCfg("n2", "")>>,
      edges |-> <<Edge("n1", "n2", ""), Edge("n2", "n1", "")>>],
     [nodes |-> <<MemoryCfg("n1", "", "set", "k1", "1"), StartCfg("n2", "")>>,
      edges |-> <<>>],
     [nodes |-> <<LoopCfg("n1", "", [form |-> "int", n |-> 1], "item")>>, edges |-> <<>>],
     [nodes |-> <<MemoryCfg("n1", "", "set", "k1", "1"), SubCfg("n2", "", "child", TRUE)>>,
      edges |-> <<Edge("n1", "n2", "")>>]}

ParentWorkflows ==
    {[nodes |-> <<first, SubCfg("n2", label, name, pm), MemoryCfg("n3", "", "get", "k1", "")>>,
      edges |-> <<Edge("n1", "n2", ""), Edge("n2", "n3", "")>>] :
        first \in {StartCfg("n1", ""), MemoryCfg("n1", "", "set", "p", "1")},
        label \in {"", "S"}, name \in {"", "missing", "child"}, pm \in BOOLEAN}

IfElseCfg(id, condition, value) ==
    [id |-> id, type |-> "if_else", label |-> "",
     data |-> [condition |-> condition, value |-> value]]

IfConditions == {"True", "False", "{input} == 'ok'", "input > 1", "flag", "1/0"}

\* A producer, then an IfElse node whose two outputs lead to two Memory
\* nodes.
IfFamily ==
    {[nodes |-> <<prod, IfElseCfg("n2", cond, value),
                  MemoryCfg("n3", "", "set", "went", "yes"),
                  MemoryCfg("n4", "", "set", "went", "no")>>,
      edges |-> <<Edge("n1", "n2", ""), Edge("n2", "n3", "out-true"),
                  Edge("n2", "n4", "out-false")>>] :
        prod \in {StartValueCfg("n1", "ok"), StartValueCfg("n1", ""),
                  MemoryCfg("n1", "", "set", "k1", "7"),
                  MemoryCfg("n1", "", "get", "k1", "")},
        cond \in IfConditions, value \in {"", "ok"}}

\* A node that returns an action, with two edges of any names.
RoutingFamily ==
    {[nodes |-> <<n, MemoryCfg("n2", "", "set", "k1", "1"),
                  MemoryCfg("n3", "", "set", "k2", "2")>>,
      edges |-> <<Edge("n1", "n2", h1), Edge("n1", "n3", h2)>>] :
        n \in {LoopCfg("n1", "", [form |-> "int", n |-> 1], "item"),
               LoopCfg("n1", "", [form |-> "int", n |-> 0], "item"),
               TryCatchCfg("n1", "", None)},
        h1 \in {"", "out-loop", "out-done", "out-success", "out-alt"},
        h2 \in {"", "out-loop", "out-done", "out-success", "out-alt"}}

\* An outer Loop whose body is an inner Loop with a body of its own: the
\* inner `done` leads back to the outer Loop.
NestedLoops(outer, inner) ==
    [nodes |-> <<StartCfg("n1", ""),
                 LoopCfg("n2", "", outer, "item"),
                 LoopCfg("n3", "", inner, "j"),
                 MemoryCfg("n4", "", "get", "j", "")>>,
     edges |-> <<Edge("n1", "n2", ""), Edge("n2", "n3", "out-loop"),
                 Edge("n3", "n4", "out-loop"), Edge("n4", "n3", ""),
                 Edge("n3", "n2", "out-done")>>]

NestedItemConfigs ==
    {[form |-> "int", n |-> n] : n \in 0..MaxIter}
    \cup {[form |-> "array", arr |-> <<Str("a"), Str("b")>>]}

NestedFamily ==
    {NestedLoops(outer, inner) : outer \in NestedItemConfigs, inner \in NestedItemConfigs}

SwitchCfg(id, c1, c2, c3) ==
    [id |-> id, type |-> "switch", label |-> "", data |-> [cases |-> <<c1, c2, c3>>]]

\* A Switch node alone, and after a producer; its first two cases lead to
\* two Memory nodes.
SwitchProducers ==
    {StartValueCfg("n1", "ok"), StartValueCfg("n1", " ok "), StartValueCfg("n1", " "),
     MemoryCfg("n1", "", "set", "k1", "7"), MemoryCfg("n1", "", "get", "k1", "")}

SwitchNodes ==
    {SwitchCfg("n2", c1, c2, c3) :
        c1 \in {"", "ok", " ", "7"}, c2 \in {"", "ok", " ok ", "None"},
        c3 \in {"", "ok", "7"}}

SwitchFamily ==
    {[nodes |-> <<prod, sw, MemoryCfg("n3", "", "set", "went", "1"),
                  MemoryCfg("n4", "", "set", "went", "2")>>,
      edges |-> <<Edge("n1", "n2", ""), Edge("n2", "n3", "out-case_1"),
                  Edge("n2", "n4", "out-case_2")>>] :
        prod \in SwitchProducers, sw \in SwitchNodes}
    \cup {[nodes |-> <<sw>>, edges |-> <<>>] : sw \in SwitchNodes}

\* A fan-out whose two targets both lead to one Merge node.
Diamond(a, b, label, first, second) ==
    [nodes |-> <<StartCfg("n1", ""), a, b, OtherCfg("n4", label, "merge")>>,
     edges |-> <<Edge("n1", first, ""), Edge("n1", second, ""),
                 Edge("n2", "n4", ""), Edge("n3", "n4", "")>>]

DiamondFamily ==
    {Diamond(a, b, label, "n2", "n3") :
        a \in {StartValueCfg("n2", "a"), MemoryCfg("n2", "", "set", "k1", "1")},
        b \in {StartValueCfg("n3", "b"), StartValueCfg("n3", "a"),
               MemoryCfg("n3", "", "get", "k1", "")},
        label \in {"", "M"}}
    \cup {Diamond(StartValueCfg("n2", "a"), StartValueCfg("n3", "b"), "M", "n3", "n2")}

Inputs ==
    {[wf |-> w, store |-> NoStore] :
        w \in SingleFamily \cup LoopFamily \cup WhileFamily \cup TryFamily \cup RoutingFamily
                \cup IfFamily \cup NestedFamily \cup DiamondFamily \cup SwitchFamily}
    \cup {[wf |-> w, store |-> [n \in {"child"} |-> c]] :
             w \in ParentWorkflows, c \in ChildWorkflows}

(***************************************************************************)
(* The specification of one run.                                           *)
(***************************************************************************)
Init ==
    /\ \/ \E k \in 0..MaxNodes, m \in 0..MaxEdges :
             \E kinds \in [1..k -> GraphKinds], es \in [1..m -> GraphEdges(k)] :
                workflow = GraphWorkflow(k, kinds, es) /\ store = NoStore
       \/ \E in \in Inputs : workflow = in.wf /\ store = in.store
    /\ pc = "init"
    /\ frames = <<>>
    /\ contexts = <<>>
    /\ exc = ""
    /\ outcome = [status |-> "none"]
    /\ log = <<>>
    /\ lastSub = [d |-> 0]
    /\ pending_requests = <<>>
    /\ threads = <<>>
    /\ resumes = <<>>
    /\ nextRequest = 1
    /\ sink \in Sinks
    /\ events = <<>>
    /\ workflows_dir = <<>>
    /\ jobs = <<>>
    /\ started = FALSE
    /\ fires = <<>>
    /\ requests = <<>>
    /\ runs = <<>>
    /\ memory_file = <<>>
    /\ previous = [status |-> "none"]
    /\ workspaces_dir = [dirs |-> {}, files |-> <<>>]
    /\ current_workspace = "default"
    /\ reply = [op |-> "none"]
    /\ saved = {}
    /\ writers = <<>>
    /\ timers = [due |-> <<>>, fired |-> {}]
    /\ llm = [pc |-> "none"]

Next ==
    \/ RunWorkflowStart
    \/ OrchStep
    \/ BranchEnter
    \/ BranchLaunch
    \/ BranchReturn
    \/ FlowReturn
    \/ SubWorkflowRefuse
    \/ SubWorkflowEnter
    \/ SubWorkflowReturn
    \/ SubWorkflowCatch
    \/ Unwind
    \/ RunWorkflowReturn
    \/ RunWorkflowExcept

Spec == Init /\ [][Next]_vars

(***************************************************************************)
(* The same workflow run twice, one run after the other.                   *)
(***************************************************************************)
\* The caller takes the result of the first call and calls run_workflow
\* again with the same workflow; the first call's flow and shared_state
\* are garbage by then.
RunWorkflowAgain ==
    /\ pc = "returned"
    /\ previous.status = "none"
    /\ previous' = [status |-> "ran", outcome |-> outcome, log |-> log]
    /\ pc' = "init"
    /\ exc' = ""
    /\ outcome' = [status |-> "none"]
    /\ log' = <<>>
    /\ UNCHANGED <<kvars, hvars, svars, workflow, store, frames, contexts, lastSub, runs, memory_file, wvars, zvars>>

GetThenSet(a, b) == [nodes |-> <<a, b>>, edges |-> <<Edge("n1", "n2", "")>>]

RerunFamily ==
    {LoopShape(LoopCfg("n2", "", items, "item"), body, "out-loop") :
        items \in {[form |-> "int", n |-> 2], [form |-> "array", arr |-> <<Str("a")>>],
                   [form |-> "text"]},
        body \in {MemoryCfg("n3", "", "set", "k3", "stop"), StartCfg("n3", "")}}
    \cup {LoopShape(WhileCfg("n2", "", cond, max), MemoryCfg("n3", "", "set", "flag", "0"),
                     "out-continue") :
             cond \in {"True", "flag", "1/0"}, max \in {IntV(MaxIter), Str("many")}}
    \cup {GetThenSet(MemoryCfg("n1", "", "get", k, ""), MemoryCfg("n2", "", op, "k1", "5")) :
             k \in {"k1", "k2"}, op \in {"set", "delete"}}
    \cup {GetThenSet(PersistentMemoryCfg("n1", "get", k, ""),
                      PersistentMemoryCfg("n2", op, "k1", v)) :
             k \in {"k1", "k2"}, op \in {"set", "delete", "clear"}, v \in {"5", "text"}}
    \cup {GetThenSet(PersistentMemoryCfg("n1", "set", "k1", "5"),
                      MemoryCfg("n2", "", "get", "k1", ""))}

InitRerun ==
    /\ workflow \in RerunFamily
    /\ store = NoStore
    /\ pc = "init"
    /\ frames = <<>>
    /\ contexts = <<>>
    /\ exc = ""
    /\ outcome = [status |-> "none"]
    /\ log = <<>>
    /\ lastSub = [d |-> 0]
    /\ pending_requests = <<>>
    /\ threads = <<>>
    /\ resumes = <<>>
    /\ nextRequest = 1
    /\ sink \in {"none", "ok"}
    /\ events = <<>>
    /\ workflows_dir = <<>>
    /\ jobs = <<>>
    /\ started = FALSE
    /\ fires = <<>>
    /\ requests = <<>>
    /\ runs = <<>>
    /\ memory_file \in {<<>>, <<[k |-> "k1", v |-> IntV(9)]>>}
    /\ previous = [status |-> "none"]
    /\ workspaces_dir = [dirs |-> {}, files |-> <<>>]
    /\ current_workspace = "default"
    /\ reply = [op |-> "none"]
    /\ saved = {}
    /\ writers = <<>>
    /\ timers = [due |-> <<>>, fired |-> {}]
    /\ llm = [pc |-> "none"]

NextRerun ==
    \/ RunWorkflowStart
    \/ OrchStep
    \/ OrchStepPersistent
    \/ FlowReturn
    \/ Unwind
    \/ RunWorkflowReturn
    \/ RunWorkflowExcept
    \/ RunWorkflowAgain

SpecRerun == InitRerun /\ [][NextRerun]_vars

(***************************************************************************)
(* Human in the loop: worker threads blocked in HumanInputNode.exec, and   *)
(* callers that answer a request as verify_hitl_e2e.py does.               *)
(***************************************************************************)
SetThread(t, r) == [threads EXCEPT ![t] = r]

\* The event of lines 64-71.
UserInputRequired(request_id, prep_res) ==
    [type |-> "USER_INPUT_REQUIRED", request_id |-> request_id,
     data |-> prep_res.input_val]

\* prep, and exec up to the wait (lines 26-71): the request is registered,
\* then the sink, if there is one, is called outside any try block, so a
\* sink that raises ends exec with the entry still registered.
\* Threads are named in the order in which they register.
HumanRegister(t) ==
    /\ threads[t].pc = "start"
    /\ \A u \in 1..(t - 1) : threads[u].pc # "start"
    /\ pending_requests' = DictSet(pending_requests, nextRequest,
                                   HumanEntry(threads[t].node))
    /\ nextRequest' = nextRequest + 1
    /\ threads' = SetThread(t, [threads[t] EXCEPT
                                  !.pc = IF sink = "raises" THEN "raised" ELSE "waiting",
                                  !.prep_res = HumanPrep(threads[t].node, threads[t].shared),
                                  !.request_id = nextRequest])
    /\ events' = IF sink = "ok"
                 THEN Append(events, UserInputRequired(nextRequest,
                                 HumanPrep(threads[t].node, threads[t].shared)))
                 ELSE events
    /\ UNCHANGED <<xvars, kvars, evars, sink, resumes>>

\* wait_event.wait(...) returns True: the event is set (line 77).
HumanSignaled(t) ==
    /\ threads[t].pc = "waiting"
    /\ DictGet(pending_requests, threads[t].request_id).event
    /\ threads' = SetThread(t, [threads[t] EXCEPT !.pc = "signaled", !.signaled = TRUE])
    /\ UNCHANGED <<xvars, kvars, evars, svars, pending_requests, resumes, nextRequest>>

\* wait_event.wait(timeout) returns False: timeout > 0 and the time has
\* passed with the event not set (line 77).
HumanTimedOut(t) ==
    /\ threads[t].pc = "waiting"
    /\ threads[t].prep_res.timeout > 0
    /\ ~DictGet(pending_requests, threads[t].request_id).event
    /\ threads' = SetThread(t, [threads[t] EXCEPT !.pc = "expired"])
    /\ UNCHANGED <<xvars, kvars, evars, svars, pending_requests, resumes, nextRequest>>

\* response_data = pending_requests[request_id]["response"] (line 85)
HumanTakeResponse(t) ==
    /\ threads[t].pc = "signaled"
    /\ threads' = SetThread(t,
          IF DictHas(pending_requests, threads[t].request_id)
          THEN [threads[t] EXCEPT
                   !.pc = "taken",
                   !.response_data =
                       DictGet(pending_requests, threads[t].request_id).response]
          ELSE [threads[t] EXCEPT !.pc = "raised"])
    /\ UNCHANGED <<xvars, kvars, evars, svars, pending_requests, resumes, nextRequest>>

\* del pending_requests[request_id], and the return of exec (lines 81-82,
\* 86-94); a KeyError leaves exec when the entry is gone.
HumanExecReturn(t) ==
    /\ threads[t].pc \in {"taken", "expired"}
    /\ IF DictHas(pending_requests, threads[t].request_id)
       THEN /\ pending_requests' = DictDel(pending_requests, threads[t].request_id)
            /\ threads' = SetThread(t, [threads[t] EXCEPT
                              !.pc = "post",
                              !.exec_res = HumanExecResult(threads[t].signaled,
                                                           threads[t].response_data)])
       ELSE /\ threads' = SetThread(t, [threads[t] EXCEPT !.pc = "raised"])
            /\ UNCHANGED pending_requests
    /\ UNCHANGED <<xvars, kvars, evars, svars, resumes, nextRequest>>

\* post (lines 96-114)
HumanFinalize(t) ==
    /\ threads[t].pc = "post"
    /\ LET r == HumanPost(threads[t].node, threads[t].shared, threads[t].exec_res)
       IN  /\ threads' = SetThread(t, [threads[t] EXCEPT
                                          !.pc = "done",
                                          !.shared = r.ctx,
                                          !.action = r.action])
           /\ events' = events \o BasePostEvents(sink, r.before, threads[t].node, r.value)
    /\ UNCHANGED <<xvars, kvars, evars, sink, pending_requests, resumes, nextRequest>>

\* The responses a caller may give.
Payloads ==
    {MapV(<<[k |-> "approved", v |-> BoolV(TRUE)], [k |-> "comment", v |-> Str("ok")]>>),
     MapV(<<[k |-> "comment", v |-> Str("no")], [k |-> "approved", v |-> BoolV(FALSE)]>>),
     MapV(<<[k |-> "comment", v |-> Str("ok")]>>),
     MapV(<<[k |-> "approved", v |-> None]>>),
     Str("yes")}

\* pending_requests[request_id]["response"] = response_data
\* (verify_hitl_e2e.py line 48); a KeyError when the id is not pending.
\* Callers are named in the order in which they start.
\* A resume that writes the payload into every entry of the registry.
ResumeStoreEveryEntry(r) ==
    /\ resumes[r].pc = "idle"
    /\ \A q \in 1..(r - 1) : resumes[q].pc # "idle"
    /\ \E rid \in 1..(nextRequest - 1), payload \in Payloads :
          IF DictHas(pending_requests, rid)
          THEN /\ pending_requests' =
                      [i \in 1..Len(pending_requests) |->
                          [pending_requests[i] EXCEPT !.v.response = payload]]
               /\ resumes' = [resumes EXCEPT ![r] =
                      [pc |-> "stored", request_id |-> rid, payload |-> payload,
                       stored |-> TRUE]]
          ELSE /\ resumes' = [resumes EXCEPT ![r] =
                      [pc |-> "keyerror", request_id |-> rid, payload |-> payload,
                       stored |-> FALSE]]
               /\ UNCHANGED pending_requests
    /\ UNCHANGED <<xvars, kvars, evars, svars, threads, nextRequest>>

ResumeStore(r) ==
    /\ resumes[r].pc = "idle"
    /\ \A q \in 1..(r - 1) : resumes[q].pc # "idle"
    /\ \E rid \in 1..(nextRequest - 1), payload \in Payloads :
          IF DictHas(pending_requests, rid)
          THEN /\ pending_requests' = DictSet(pending_requests, rid,
                      [DictGet(pending_requests, rid) EXCEPT !.response = payload])
               /\ resumes' = [resumes EXCEPT ![r] =
                      [pc |-> "stored", request_id |-> rid, payload |-> payload,
                       stored |-> TRUE]]
          ELSE /\ resumes' = [resumes EXCEPT ![r] =
                      [pc |-> "keyerror", request_id |-> rid, payload |-> payload,
                       stored |-> FALSE]]
               /\ UNCHANGED pending_requests
    /\ UNCHANGED <<xvars, kvars, evars, svars, threads, nextRequest>>

\* pending_requests[request_id]["event"].set() (verify_hitl_e2e.py line 49)
ResumeSignal(r) ==
    /\ resumes[r].pc = "stored"
    /\ IF DictHas(pending_requests, resumes[r].request_id)
       THEN /\ pending_requests' = DictSet(pending_requests, resumes[r].request_id,
                   [DictGet(pending_requests, resumes[r].request_id)
                        EXCEPT !.event = TRUE])
            /\ resumes' = [resumes EXCEPT ![r].pc = "done"]
       ELSE /\ resumes' = [resumes EXCEPT ![r].pc = "keyerror"]
            /\ UNCHANGED pending_requests
    /\ UNCHANGED <<xvars, kvars, evars, svars, threads, nextRequest>>

HumanNode(t, timeout) ==
    [id |-> Ids[t], label |-> "Approver", type |-> "human_input",
     data |-> [timeout |-> timeout]]

\* The timeout of the configuration: 0 waits without limit.
TimeoutConfigs == {IntV(0), Str("1")}

\* The shared dict the node runs against: a previous result, and a memory
\* that already holds a value under a key the responses carry.
HumanContext ==
    [EmptyContext EXCEPT
        !.results = <<[k |-> "prev_node", v |-> Str("out")]>>,
        !.memory = <<[k |-> "comment", v |-> Str("old")], [k |-> "kept", v |-> IntV(1)]>>]

HumanThread(t, timeout, ctx) ==
    [pc |-> "start", node |-> HumanNode(t, timeout), before |-> ctx, shared |-> ctx,
     prep_res |-> [timeout |-> 0, input_val |-> None], request_id |-> 0,
     signaled |-> FALSE, response_data |-> None, exec_res |-> <<>>,
     action |-> NoneAction]

\* The node of verify_hitl_e2e.py has no on_event; SpecBlocked has the
\* sinks of a run_workflow.  A sink that raises is kept in both.
HitlSinks == {"none", "raises"}

InitHitl ==
    /\ workflow = [nodes |-> <<>>, edges |-> <<>>]
    /\ store = NoStore
    /\ pc = "init"
    /\ frames = <<>>
    /\ contexts = <<>>
    /\ exc = ""
    /\ outcome = [status |-> "none"]
    /\ log = <<>>
    /\ lastSub = [d |-> 0]
    /\ pending_requests = <<>>
    /\ \E cfg \in [1..MaxThreads -> TimeoutConfigs] :
          threads = [t \in 1..MaxThreads |-> HumanThread(t, cfg[t], HumanContext)]
    /\ resumes = [r \in 1..MaxResumes |-> [pc |-> "idle", request_id |-> 0, payload |-> None,
                                       stored |-> FALSE]]
    /\ nextRequest = 1
    /\ sink \in HitlSinks
    /\ events = <<>>
    /\ workflows_dir = <<>>
    /\ jobs = <<>>
    /\ started = FALSE
    /\ fires = <<>>
    /\ requests = <<>>
    /\ runs = <<>>
    /\ memory_file = <<>>
    /\ previous = [status |-> "none"]
    /\ workspaces_dir = [dirs |-> {}, files |-> <<>>]
    /\ current_workspace = "default"
    /\ reply = [op |-> "none"]
    /\ saved = {}
    /\ writers = <<>>
    /\ timers = [due |-> <<>>, fired |-> {}]
    /\ llm = [pc |-> "none"]

NextHitl ==
    \/ \E t \in DOMAIN threads : HumanRegister(t)
    \/ \E t \in DOMAIN threads : HumanSignaled(t)
    \/ \E t \in DOMAIN threads : HumanTimedOut(t)
    \/ \E t \in DOMAIN threads : HumanTakeResponse(t)
    \/ \E t \in DOMAIN threads : HumanExecReturn(t)
    \/ \E t \in DOMAIN threads : HumanFinalize(t)
    \/ \E r \in DOMAIN resumes : ResumeStore(r)
    \/ \E r \in DOMAIN resumes : ResumeSignal(r)

SpecHitl == InitHitl /\ [][NextHitl]_vars

\* Several runs, each with a HumanInput node of its own, in one process:
\* they share the module-level pending_requests.
InitBlocked ==
    /\ workflow = [nodes |-> <<>>, edges |-> <<>>]
    /\ store = NoStore
    /\ pc = "init"
    /\ frames = <<>>
    /\ contexts = <<>>
    /\ exc = ""
    /\ outcome = [status |-> "none"]
    /\ log = <<>>
    /\ lastSub = [d |-> 0]
    /\ pending_requests = <<>>
    /\ \E cfg \in [1..MaxBlocked -> TimeoutConfigs] :
          threads = [t \in 1..MaxBlocked |-> HumanThread(t, cfg[t], HumanContext)]
    /\ resumes = [r \in 1..MaxResumes |-> [pc |-> "idle", request_id |-> 0, payload |-> None,
                                       stored |-> FALSE]]
    /\ nextRequest = 1
    /\ sink \in Sinks
    /\ events = <<>>
    /\ workflows_dir = <<>>
    /\ jobs = <<>>
    /\ started = FALSE
    /\ fires = <<>>
    /\ requests = <<>>
    /\ runs = <<>>
    /\ memory_file = <<>>
    /\ previous = [status |-> "none"]
    /\ workspaces_dir = [dirs |-> {}, files |-> <<>>]
    /\ current_workspace = "default"
    /\ reply = [op |-> "none"]
    /\ saved = {}
    /\ writers = <<>>
    /\ timers = [due |-> <<>>, fired |-> {}]
    /\ llm = [pc |-> "none"]

SpecBlocked == InitBlocked /\ [][NextHitl]_vars


(***************************************************************************)
(* SchedulerService (scheduler.py) and the handlers of main.py that change *)
(* the workflows directory.                                                *)
(***************************************************************************)
\* filename.endswith(suffix)
EndsWith(s, suffix) ==
    /\ Len(s) >= Len(suffix)
    /\ SubSeq(s, Len(s) - Len(suffix) + 1, Len(s)) = suffix

\* s.replace(old, ""): every occurrence, scanning from the left
RECURSIVE RemoveAll(_, _)
RemoveAll(s, old) ==
    IF Len(s) < Len(old) THEN s
    ELSE IF SubSeq(s, 1, Len(old)) = old
         THEN RemoveAll(SubSeq(s, Len(old) + 1, Len(s)), old)
         ELSE SubSeq(s, 1, 1) \o RemoveAll(SubSeq(s, 2, Len(s)), old)

\* name = filename.replace(".json", "") (line 52)
JobName(filename) == RemoveAll(filename, ".json")

\* expr.split(), for texts whose only whitespace is the single space
RECURSIVE SplitSpace(_)
SplitSpace(s) ==
    LET spaces == {i \in 1..Len(s) : SubSeq(s, i, i) = " "}
    IN  IF spaces = {} THEN <<s>>
        ELSE LET i == CHOOSE c \in spaces : \A d \in spaces : c <= d
             IN  <<SubSeq(s, 1, i - 1)>> \o SplitSpace(SubSeq(s, i + 1, Len(s)))

\* The least and greatest value of the five crontab fields: minute, hour,
\* day, month, day of week.
CronFieldRange == <<[lo |-> 0, hi |-> 59], [lo |-> 0, hi |-> 23], [lo |-> 1, hi |-> 31],
                    [lo |-> 1, hi |-> 12], [lo |-> 0, hi |-> 6]>>

\* CronTrigger.from_crontab(expr) succeeds: five fields, each `*` or a
\* number in the field's range (the expressions of the model use no
\* other form); it raises ValueError otherwise.
CrontabParses(expr) ==
    LET fields == SplitSpace(expr)
    IN  /\ Len(fields) = 5
        /\ \A i \in 1..5 :
              \/ fields[i] = "*"
              \/ /\ IsNumeral(fields[i])
                 /\ NumeralValue(fields[i]) >= CronFieldRange[i].lo
                 /\ NumeralValue(fields[i]) <= CronFieldRange[i].hi

NoTrigger == [t |-> "none"]

\* lines 55-73: the trigger of a schedule node's config; NoTrigger when
\* the expression is empty (return) or when building the trigger raises.
TriggerOf(config) ==
    IF DictGetOr(config, "schedule_type", Str("Interval")) = Str("Cron")
    THEN LET expr == DictGetOr(config, "cron_expression", Str("* * * * *"))
         IN  IF ~Truthy(expr) THEN NoTrigger
             ELSE IF expr.t = "str" /\ CrontabParses(expr.s)
                  THEN [t |-> "cron", expr |-> expr.s]
                  ELSE NoTrigger
    ELSE LET val == DictGetOr(config, "interval_value", IntV(1))
             unit == DictGetOr(config, "interval_unit", Str("Minutes"))
         IN  IF ~IntParses(val) THEN NoTrigger
             ELSE [t |-> "interval", every |-> IntOf(val),
                   unit |-> IF unit = Str("Seconds") THEN "seconds"
                            ELSE IF unit = Str("Hours") THEN "hours"
                            ELSE "minutes"]

IsCronNode(n) == n.t = "map" /\ DictGetOr(n.m, "type", None) = Str("cron")

\* scheduler.add_job(..., id=name, replace_existing=True)
AddJob(js, name, job) ==
    [n \in DOMAIN js \cup {name} |-> IF n = name THEN job ELSE js[n]]

\* A _schedule_workflow that takes the first schedule node whose trigger
\* can be built.
ScheduleWorkflowAnyNode(js, filename, wf) ==
    LET nodes == DictGetOr(wf.m, "nodes", ListV(<<>>)).l
        good == {i \in 1..Len(nodes) :
                    IsCronNode(nodes[i])
                    /\ TriggerOf(DictGetOr(nodes[i].m, "data", MapV(<<>>)).m) # NoTrigger}
    IN  IF good = {} THEN js
        ELSE LET i == CHOOSE c \in good : \A d \in good : c <= d
             IN  AddJob(js, JobName(filename),
                        [trigger |-> TriggerOf(DictGetOr(nodes[i].m, "data", MapV(<<>>)).m),
                         workflow |-> wf])

\* _schedule_workflow (lines 45-86), for a workflow that is a dict: the
\* first node of type cron decides.
ScheduleWorkflow(js, filename, wf) ==
    LET nodes == DictGetOr(wf.m, "nodes", ListV(<<>>)).l
        crons == {i \in 1..Len(nodes) : IsCronNode(nodes[i])}
    IN  IF crons = {} THEN js
        ELSE LET i == CHOOSE c \in crons : \A d \in crons : c <= d
                 trigger == TriggerOf(DictGetOr(nodes[i].m, "data", MapV(<<>>)).m)
             IN  IF trigger = NoTrigger THEN js
                 ELSE AddJob(js, JobName(filename), [trigger |-> trigger, workflow |-> wf])

\* One turn of the loop of refresh_jobs (lines 34-43): files that are no
\* .json are skipped; a file that is no JSON, or whose JSON is no dict,
\* raises inside the try block and is skipped.
ScanFile(js, dir, filename) ==
    IF ~EndsWith(filename, ".json") THEN js
    ELSE IF dir[filename].kind # "json" THEN js
    ELSE IF dir[filename].value.t # "map" THEN js
    ELSE ScheduleWorkflow(js, filename, dir[filename].value)

RECURSIVE ScanFiles(_, _, _)
ScanFiles(js, dir, listing) ==
    IF listing = <<>> THEN js
    ELSE ScanFiles(ScanFile(js, dir, listing[1]), dir, SubSeq(listing, 2, Len(listing)))

\* The file names of the model.
FileNames == <<"daily.json", "daily.json.json", "notes.txt", "report.json">>

Reverse(q) == [i \in 1..Len(q) |-> q[Len(q) + 1 - i]]

\* os.listdir(dir): the names of the directory in an arbitrary order.  The
\* scan depends on the order only through which of two files of one job
\* name comes last, so one order and its reverse give every outcome.
Listings(dir) ==
    LET l == SelectSeq(FileNames, LAMBDA f : f \in DOMAIN dir)
    IN  {l, Reverse(l)}

\* refresh_jobs (lines 26-43): remove_all_jobs, then the scan.
RefreshJobs(js, dir, listing) == ScanFiles(<<>>, dir, listing)

\* The files of the model.
CronNodeCfg(id, data) ==
    MapV(<<[k |-> "id", v |-> Str(id)], [k |-> "type", v |-> Str("cron")],
           [k |-> "data", v |-> MapV(data)]>>)

PlainNodeCfg(id) ==
    MapV(<<[k |-> "id", v |-> Str(id)], [k |-> "type", v |-> Str("start")],
           [k |-> "data", v |-> MapV(<<>>)]>>)

ScheduleConfigs ==
    { <<[k |-> "schedule_type", v |-> Str("Interval")],
        [k |-> "interval_value", v |-> Str("5")],
        [k |-> "interval_unit", v |-> Str("Seconds")]>>,
      <<[k |-> "schedule_type", v |-> Str("Interval")],
        [k |-> "interval_value", v |-> Str("soon")]>>,
      <<[k |-> "schedule_type", v |-> Str("Cron")],
        [k |-> "cron_expression", v |-> Str("0 9 * * 1")]>> }

FileNodes(i) == {PlainNodeCfg(Ids[i])} \cup {CronNodeCfg(Ids[i], c) : c \in ScheduleConfigs}

WorkflowJson(nodes) ==
    [kind |-> "json",
     value |-> MapV(<<[k |-> "nodes", v |-> ListV(nodes)], [k |-> "edges", v |-> ListV(<<>>)]>>)]

FileNodeSeqs(n) ==
    {q \in [1..n -> UNION {FileNodes(i) : i \in 1..n}] : \A i \in 1..n : q[i] \in FileNodes(i)}

\* What save_workflow writes: a Workflow dumped as JSON.
SavedWorkflows ==
    UNION {{WorkflowJson(ns) : ns \in FileNodeSeqs(n)} : n \in 0..MaxFileNodes}

\* The workflows saved under the other names of the model.
SmallWorkflows ==
    {WorkflowJson(<<CronNodeCfg(Ids[1], <<>>)>>),
     WorkflowJson(<<CronNodeCfg(Ids[1], <<[k |-> "schedule_type", v |-> Str("Cron")],
                                         [k |-> "cron_expression", v |-> Str("every day")]>>)>>),
     WorkflowJson(<<CronNodeCfg(Ids[1], <<[k |-> "schedule_type", v |-> Str("Cron")],
                                         [k |-> "cron_expression", v |-> Str("")]>>)>>),
     WorkflowJson(<<PlainNodeCfg(Ids[1])>>)}

\* What a .json file moved in by migrate_legacy_workflows may hold: also
\* text that is no JSON, and JSON that is no dict.
LegacyFiles ==
    {[kind |-> "text"], [kind |-> "json", value |-> ListV(<<>>)]} \cup SmallWorkflows

\* The names workflows are saved under; "daily.json" is stored in the file
\* daily.json.json.
WorkflowNames == {"daily", "daily.json"}

WithFile(dir, filename, content) ==
    [f \in DOMAIN dir \cup {filename} |-> IF f = filename THEN content ELSE dir[f]]

WithoutFile(dir, filename) == [f \in DOMAIN dir \ {filename} |-> dir[f]]

\* SchedulerService.start (lines 17-20), called at startup after
\* migrate_legacy_workflows has filled the directory.
SchedulerStart ==
    /\ ~started
    /\ started' = TRUE
    /\ \E l \in Listings(workflows_dir) : jobs' = RefreshJobs(jobs, workflows_dir, l)
    /\ UNCHANGED <<xvars, evars, hvars, svars, workflows_dir, fires, requests>>

\* main.py save_workflow (lines 175-190): write the file, refresh.
SaveWorkflow ==
    /\ started
    /\ \E name \in WorkflowNames, wf \in SavedWorkflows :
          /\ name # "daily" => wf \in SmallWorkflows
          /\ workflows_dir' = WithFile(workflows_dir, name \o ".json", wf)
          /\ \E l \in Listings(workflows_dir') :
                jobs' = RefreshJobs(jobs, workflows_dir', l)
    /\ UNCHANGED <<xvars, evars, hvars, svars, started, fires, requests>>

\* main.py delete_workflow (lines 204-217): remove the file, refresh.
DeleteWorkflow ==
    /\ started
    /\ \E name \in WorkflowNames :
          /\ (name \o ".json") \in DOMAIN workflows_dir
          /\ workflows_dir' = WithoutFile(workflows_dir, name \o ".json")
          /\ \E l \in Listings(workflows_dir') :
                jobs' = RefreshJobs(jobs, workflows_dir', l)
    /\ UNCHANGED <<xvars, evars, hvars, svars, started, fires, requests>>

\* refresh_jobs called again with the directory as it is (main.py 113).
RefreshAgain ==
    /\ started
    /\ \E l \in Listings(workflows_dir) : jobs' = RefreshJobs(jobs, workflows_dir, l)
    /\ UNCHANGED <<xvars, evars, hvars, svars, workflows_dir, started, fires, requests>>

\* The directory at startup: legacy files, and a file that is no .json.
InitialDirs ==
    UNION {[S \cup {"notes.txt"} -> LegacyFiles] : S \in SUBSET {"daily.json", "daily.json.json"}}

InitSched ==
    /\ workflow = [nodes |-> <<>>, edges |-> <<>>]
    /\ store = NoStore
    /\ pc = "init"
    /\ frames = <<>>
    /\ contexts = <<>>
    /\ exc = ""
    /\ outcome = [status |-> "none"]
    /\ log = <<>>
    /\ lastSub = [d |-> 0]
    /\ pending_requests = <<>>
    /\ threads = <<>>
    /\ resumes = <<>>
    /\ nextRequest = 1
    /\ sink = "none"
    /\ events = <<>>
    /\ workflows_dir \in InitialDirs
    /\ jobs = <<>>
    /\ started = FALSE
    /\ fires = <<>>
    /\ requests = <<>>
    /\ runs = <<>>
    /\ memory_file = <<>>
    /\ previous = [status |-> "none"]
    /\ workspaces_dir = [dirs |-> {}, files |-> <<>>]
    /\ current_workspace = "default"
    /\ reply = [op |-> "none"]
    /\ saved = {}
    /\ writers = <<>>
    /\ timers = [due |-> <<>>, fired |-> {}]
    /\ llm = [pc |-> "none"]

NextSched ==
    \/ SchedulerStart
    \/ SaveWorkflow
    \/ DeleteWorkflow
    \/ RefreshAgain

SpecSched == InitSched /\ [][NextSched]_vars

(***************************************************************************)
(* A job fires: SchedulerService.execute_job (scheduler.py 88-103).        *)
(***************************************************************************)
\* build_graph reads workflow.nodes (engine.py 45): an attribute of the
\* Workflow model, which the dict that json.load returned does not have.
HasAttrNodes(wf) == wf.t # "map"

\* The ids of the nodes of a workflow dict, in declaration order.
DictNodeIds(wf) ==
    LET nodes == DictGetOr(wf.m, "nodes", ListV(<<>>)).l
    IN  [i \in 1..Len(nodes) |-> DictGetOr(nodes[i].m, "id", None)]

\* run_workflow(workflow) as execute_job calls it (line 100), with the
\* workflow the job was added with: what it raised ("" for nothing) and
\* the nodes whose lifecycle ran.
RunJobWorkflow(wf) ==
    IF HasAttrNodes(wf)
    THEN [raised |-> "", ran |-> DictNodeIds(wf)]
    ELSE [raised |-> "AttributeError: 'dict' object has no attribute 'nodes'",
          ran |-> <<>>]

\* An execute_job whose error cancels the job.
ExecuteJobCancelsFailed ==
    /\ started
    /\ Len(fires) < MaxFires
    /\ \E name \in DOMAIN jobs :
          LET r == RunJobWorkflow(jobs[name].workflow)
          IN  /\ fires' = Append(fires, [name |-> name, workflow |-> jobs[name].workflow,
                                          logged |-> r.raised, escaped |-> "",
                                          ran |-> r.ran])
              /\ jobs' = IF r.raised # "" THEN [n \in DOMAIN jobs \ {name} |-> jobs[n]]
                         ELSE jobs
    /\ UNCHANGED <<xvars, evars, hvars, svars, workflows_dir, started, requests>>

\* execute_job(name, workflow): await run_workflow(workflow) inside
\* try/except Exception; whatever it raises is logged (lines 100-103).
\* The scheduler keeps the job.
ExecuteJob ==
    /\ started
    /\ Len(fires) < MaxFires
    /\ \E name \in DOMAIN jobs :
          LET r == RunJobWorkflow(jobs[name].workflow)
          IN  fires' = Append(fires, [name |-> name, workflow |-> jobs[name].workflow,
                                      logged |-> r.raised, escaped |-> "",
                                      ran |-> r.ran])
    /\ UNCHANGED <<xvars, evars, hvars, svars, workflows_dir, jobs, started, requests>>

\* The directory at startup, here with workflows under two job names.
FireDirs ==
    UNION {[S \cup {"daily.json"} -> SmallWorkflows] : S \in SUBSET {"report.json", "notes.txt"}}

InitFire ==
    /\ workflow = [nodes |-> <<>>, edges |-> <<>>]
    /\ store = NoStore
    /\ pc = "init"
    /\ frames = <<>>
    /\ contexts = <<>>
    /\ exc = ""
    /\ outcome = [status |-> "none"]
    /\ log = <<>>
    /\ lastSub = [d |-> 0]
    /\ pending_requests = <<>>
    /\ threads = <<>>
    /\ resumes = <<>>
    /\ nextRequest = 1
    /\ sink = "none"
    /\ events = <<>>
    /\ workflows_dir \in FireDirs
    /\ jobs = <<>>
    /\ started = FALSE
    /\ fires = <<>>
    /\ requests = <<>>
    /\ runs = <<>>
    /\ memory_file = <<>>
    /\ previous = [status |-> "none"]
    /\ workspaces_dir = [dirs |-> {}, files |-> <<>>]
    /\ current_workspace = "default"
    /\ reply = [op |-> "none"]
    /\ saved = {}
    /\ writers = <<>>
    /\ timers = [due |-> <<>>, fired |-> {}]
    /\ llm = [pc |-> "none"]

NextFire ==
    \/ SchedulerStart
    \/ ExecuteJob
    \/ DeleteWorkflow
    \/ RefreshAgain

SpecFire == InitFire /\ [][NextFire]_vars

(***************************************************************************)
(* Requests served at once.  save_workflow is a coroutine of the event     *)
(* loop and has no await, so two saves never interleave; delete_workflow   *)
(* is a plain function, which the server runs on a worker thread: its      *)
(* steps interleave with those of any other request.  refresh_jobs is a    *)
(* sequence of calls (remove_all_jobs, listdir, open and load per file,    *)
(* add_job), each atomic by itself.                                        *)
(***************************************************************************)
IdleRequest == [pc |-> "idle", kind |-> "", name |-> "", listing |-> <<>>, loaded |-> None]

SetRequest(r, v) == [requests EXCEPT ![r] = v]

SaveRunning(r) ==
    \E q \in DOMAIN requests :
        q # r /\ requests[q].kind = "save" /\ requests[q].pc \notin {"idle", "done"}

\* A step of request r may be taken now.
MayStep(r) == requests[r].kind = "save" => ~SaveRunning(r)

\* save_workflow up to the write of the file (main.py 175-183).
SaveBegin(r) ==
    /\ started
    /\ requests[r].pc = "idle"
    /\ \A q \in 1..(r - 1) : requests[q].pc # "idle"
    /\ ~SaveRunning(r)
    /\ \E name \in WorkflowNames, wf \in SmallWorkflows :
          /\ workflows_dir' = WithFile(workflows_dir, name \o ".json", wf)
          /\ requests' = SetRequest(r, [IdleRequest EXCEPT !.pc = "clear", !.kind = "save",
                                                            !.name = name])
    /\ UNCHANGED <<xvars, evars, hvars, svars, jobs, started, fires>>

\* delete_workflow up to os.remove (main.py 204-211); 404 when the file
\* is not there.
DeleteBegin(r) ==
    /\ started
    /\ requests[r].pc = "idle"
    /\ \A q \in 1..(r - 1) : requests[q].pc # "idle"
    /\ \E name \in WorkflowNames :
          IF (name \o ".json") \in DOMAIN workflows_dir
          THEN /\ workflows_dir' = WithoutFile(workflows_dir, name \o ".json")
               /\ requests' = SetRequest(r, [IdleRequest EXCEPT !.pc = "clear",
                                                  !.kind = "delete", !.name = name])
          ELSE /\ requests' = SetRequest(r, [IdleRequest EXCEPT !.pc = "done",
                                                  !.kind = "delete", !.name = name])
               /\ UNCHANGED workflows_dir
    /\ UNCHANGED <<xvars, evars, hvars, svars, jobs, started, fires>>

\* A refresh_jobs that runs from remove_all_jobs to its end in one step.
RefreshClearAtomic(r) ==
    /\ requests[r].pc = "clear" /\ MayStep(r)
    /\ \E l \in Listings(workflows_dir) : jobs' = RefreshJobs(jobs, workflows_dir, l)
    /\ requests' = SetRequest(r, [requests[r] EXCEPT !.pc = "done"])
    /\ UNCHANGED <<xvars, evars, hvars, svars, workflows_dir, started, fires>>

\* self.scheduler.remove_all_jobs() (scheduler.py 29)
RefreshClear(r) ==
    /\ requests[r].pc = "clear" /\ MayStep(r)
    /\ jobs' = <<>>
    /\ requests' = SetRequest(r, [requests[r] EXCEPT !.pc = "list"])
    /\ UNCHANGED <<xvars, evars, hvars, svars, workflows_dir, started, fires>>

\* os.listdir(self.workflows_dir) (line 34)
RefreshList(r) ==
    /\ requests[r].pc = "list" /\ MayStep(r)
    /\ \E l \in Listings(workflows_dir) :
          requests' = SetRequest(r, [requests[r] EXCEPT
                                        !.pc = IF l = <<>> THEN "done" ELSE "scan",
                                        !.listing = l])
    /\ UNCHANGED <<xvars, evars, hvars, svars, workflows_dir, jobs, started, fires>>

\* One file of the listing: open and json.load (lines 35-39).  A file that
\* is gone by now, is no .json, is no JSON or holds no dict is skipped.
RefreshLoad(r) ==
    /\ requests[r].pc = "scan" /\ MayStep(r)
    /\ LET f == requests[r].listing[1]
           rest == SubSeq(requests[r].listing, 2, Len(requests[r].listing))
           ok == /\ f \in DOMAIN workflows_dir
                 /\ EndsWith(f, ".json")
                 /\ workflows_dir[f].kind = "json"
                 /\ workflows_dir[f].value.t = "map"
       IN  requests' = SetRequest(r,
              IF ok
              THEN [requests[r] EXCEPT !.pc = "add",
                                       !.loaded = workflows_dir[f].value]
              ELSE [requests[r] EXCEPT !.pc = IF rest = <<>> THEN "done" ELSE "scan",
                                       !.listing = rest])
    /\ UNCHANGED <<xvars, evars, hvars, svars, workflows_dir, jobs, started, fires>>

\* self._schedule_workflow(filename, workflow) (line 41) with the workflow
\* that was loaded.
RefreshSchedule(r) ==
    /\ requests[r].pc = "add" /\ MayStep(r)
    /\ LET f == requests[r].listing[1]
           rest == SubSeq(requests[r].listing, 2, Len(requests[r].listing))
       IN  /\ jobs' = ScheduleWorkflow(jobs, f, requests[r].loaded)
           /\ requests' = SetRequest(r, [requests[r] EXCEPT
                                            !.pc = IF rest = <<>> THEN "done" ELSE "scan",
                                            !.listing = rest,
                                            !.loaded = None])
    /\ UNCHANGED <<xvars, evars, hvars, svars, workflows_dir, started, fires>>

InitRace ==
    /\ workflow = [nodes |-> <<>>, edges |-> <<>>]
    /\ store = NoStore
    /\ pc = "init"
    /\ frames = <<>>
    /\ contexts = <<>>
    /\ exc = ""
    /\ outcome = [status |-> "none"]
    /\ log = <<>>
    /\ lastSub = [d |-> 0]
    /\ pending_requests = <<>>
    /\ threads = <<>>
    /\ resumes = <<>>
    /\ nextRequest = 1
    /\ sink = "none"
    /\ events = <<>>
    /\ workflows_dir \in FireDirs
    /\ jobs = <<>>
    /\ started = FALSE
    /\ fires = <<>>
    /\ requests = [r \in 1..MaxRequests |-> IdleRequest]
    /\ runs = <<>>
    /\ memory_file = <<>>
    /\ previous = [status |-> "none"]
    /\ workspaces_dir = [dirs |-> {}, files |-> <<>>]
    /\ current_workspace = "default"
    /\ reply = [op |-> "none"]
    /\ saved = {}
    /\ writers = <<>>
    /\ timers = [due |-> <<>>, fired |-> {}]
    /\ llm = [pc |-> "none"]

NextRace ==
    \/ SchedulerStart
    \/ \E r \in DOMAIN requests : SaveBegin(r)
    \/ \E r \in DOMAIN requests : DeleteBegin(r)
    \/ \E r \in DOMAIN requests : RefreshClear(r)
    \/ \E r \in DOMAIN requests : RefreshList(r)
    \/ \E r \in DOMAIN requests : RefreshLoad(r)
    \/ \E r \in DOMAIN requests : RefreshSchedule(r)

SpecRace == InitRace /\ [][NextRace]_vars

(***************************************************************************)
(* LLMNode.prep (llm.py): where the connection settings come from.         *)
(***************************************************************************)
\* config.py lines 10-12
LLM_BASE_URL == Str("http://localhost:1234/v1")

LLM_API_KEY == Str("lm-studio")

LLM_MODEL == Str("local-model")

\* Python's `a or b`
PyOr(a, b) == IF Truthy(a) THEN a ELSE b

\* A prep that asks the shared dict before the node's own config.
LLMSettingSharedFirst(cfg, shared, key, shared_key, default) ==
    PyOr(PyOr(DictGetOr(shared, shared_key, None), DictGetOr(cfg, key, None)), default)

\* cfg.get(key) or shared.get(shared_key) or default (lines 38-40)
LLMSetting(cfg, shared, key, shared_key, default) ==
    PyOr(PyOr(DictGetOr(cfg, key, None), DictGetOr(shared, shared_key, None)), default)

\* The values a setting is given in the model: none, empty, some text.
SettingValues(text) == {None, Str(""), Str(text)}

\* A dict with the keys whose value is not None.
DictOf(pairs) == SelectSeq(pairs, LAMBDA e : e.v # None)

\* StartNode.prep (general.py 26-34): local_llm_address, when given,
\* becomes the shared llm_base_url.
LLMStartPrep ==
    /\ llm.pc = "start"
    /\ LET llm_addr == DictGetOr(llm.start_config, "local_llm_address", None)
       IN  llm' = [llm EXCEPT !.pc = "prep",
                              !.shared = IF Truthy(llm_addr)
                                         THEN DictSet(llm.shared, "llm_base_url", llm_addr)
                                         ELSE llm.shared]
    /\ UNCHANGED <<evars, hvars, svars, kvars, runs, memory_file, previous, wvars,
                   writers, timers>>

\* LLMNode.prep, lines 35-40.
LLMPrep ==
    /\ llm.pc = "prep"
    /\ llm' = [llm EXCEPT
                 !.pc = "ready",
                 !.api_base = LLMSetting(llm.config, llm.shared, "api_base", "llm_base_url",
                                         LLM_BASE_URL),
                 !.api_key = LLMSetting(llm.config, llm.shared, "api_key", "llm_api_key",
                                        LLM_API_KEY),
                 !.model = LLMSetting(llm.config, llm.shared, "model", "llm_model", LLM_MODEL)]
    /\ UNCHANGED <<evars, hvars, svars, kvars, runs, memory_file, previous, wvars,
                   writers, timers>>

InitLlm ==
    /\ workflow = [nodes |-> <<>>, edges |-> <<>>]
    /\ store = NoStore
    /\ pc = "init"
    /\ frames = <<>>
    /\ contexts = <<>>
    /\ exc = ""
    /\ outcome = [status |-> "none"]
    /\ log = <<>>
    /\ lastSub = [d |-> 0]
    /\ pending_requests = <<>>
    /\ threads = <<>>
    /\ resumes = <<>>
    /\ nextRequest = 1
    /\ sink = "none"
    /\ events = <<>>
    /\ workflows_dir = <<>>
    /\ jobs = <<>>
    /\ started = FALSE
    /\ fires = <<>>
    /\ requests = <<>>
    /\ runs = <<>>
    /\ memory_file = <<>>
    /\ previous = [status |-> "none"]
    /\ workspaces_dir = [dirs |-> {}, files |-> <<>>]
    /\ current_workspace = "default"
    /\ reply = [op |-> "none"]
    /\ saved = {}
    /\ writers = <<>>
    /\ timers = [due |-> <<>>, fired |-> {}]
    /\ \E addr \in SettingValues("http://start/v1"),
          base \in SettingValues("http://node/v1"), key \in SettingValues("node-key"),
          model \in SettingValues("node-model"),
          skey \in SettingValues("shared-key"), smodel \in SettingValues("shared-model") :
          llm = [pc |-> "start",
                 start_config |-> DictOf(<<[k |-> "local_llm_address", v |-> addr]>>),
                 config |-> DictOf(<<[k |-> "api_base", v |-> base], [k |-> "api_key", v |-> key],
                                     [k |-> "model", v |-> model]>>),
                 shared |-> DictOf(<<[k |-> "llm_api_key", v |-> skey],
                                     [k |-> "llm_model", v |-> smodel]>>),
                 api_base |-> None, api_key |-> None, model |-> None]

NextLlm == LLMStartPrep \/ LLMPrep

SpecLlm == InitLlm /\ [][NextLlm]_vars

(***************************************************************************)
(* Workspaces (workspace_manager.py, main.py).  A workspace name is joined *)
(* to workspaces_dir as it comes; the directory it denotes is found by the *)
(* file system.                                                            *)
(***************************************************************************)
WorkspaceNames == {"default", "a", "a/", "."}

\* os.path.join(self.workspaces_dir, name), as the file system resolves
\* it: the path below workspaces_dir, by components.
WorkspaceDir(name) ==
    CASE name = "." -> <<>>
      [] name = "a/" -> <<"a">>
      [] OTHER -> <<name>>

WorkflowsDir(name) == WorkspaceDir(name) \o <<"workflows">>

DataDir(name) == WorkspaceDir(name) \o <<"data">>

IsPrefix(p, q) == Len(p) <= Len(q) /\ SubSeq(q, 1, Len(p)) = p

\* os.path.exists of a directory; workspaces_dir itself is always there.
DirExists(tree, p) == p = <<>> \/ p \in tree.dirs

\* os.makedirs(p, exist_ok=True)
MakeDirs(tree, p) ==
    [tree EXCEPT !.dirs = @ \cup {SubSeq(p, 1, n) : n \in 1..Len(p)}]

\* shutil.rmtree(p): everything below p, and p itself.
RmTree(tree, p) ==
    [dirs |-> {d \in tree.dirs : ~IsPrefix(p, d)},
     files |-> [f \in {g \in DOMAIN tree.files : ~IsPrefix(p, g)} |-> tree.files[f]]]

\* The files of directory p, by file name.
FilesIn(tree, p) ==
    LET here == {f \in DOMAIN tree.files : Len(f) = Len(p) + 1 /\ IsPrefix(p, f)}
    IN  [n \in {f[Len(f)] : f \in here} |-> tree.files[p \o <<n>>]]

\* list_workspaces: the directories directly below workspaces_dir.
ListWorkspaces(tree) == {d[1] : d \in {e \in tree.dirs : Len(e) = 1}}

\* list_workflows (main.py 167-173)
ListWorkflows(tree, current) ==
    {JobName(f) : f \in {g \in DOMAIN FilesIn(tree, WorkflowsDir(current)) : EndsWith(g, ".json")}}

\* create_workspace (workspace_manager.py 30-37; main.py 97-100)
CreateWorkspace(name) ==
    /\ started
    /\ LET p == WorkspaceDir(name)
       IN  workspaces_dir' =
              IF DirExists(workspaces_dir, p) THEN workspaces_dir
              ELSE MakeDirs(MakeDirs(MakeDirs(workspaces_dir, p), WorkflowsDir(name)),
                            DataDir(name))
    /\ reply' = [op |-> "create", name |-> name, status |-> 200]
    /\ UNCHANGED <<evars, hvars, svars, kvars, runs, memory_file, previous,
                   current_workspace, saved, zvars>>

\* set_active_workspace (main.py 106-116), set_current_workspace
\* (workspace_manager.py 45-49): the scheduler is pointed at the new
\* directory and refreshed.
SetActiveWorkspace(name) ==
    /\ started
    /\ IF ~DirExists(workspaces_dir, WorkspaceDir(name))
       THEN /\ reply' = [op |-> "switch", name |-> name, status |-> 404]
            /\ UNCHANGED <<current_workspace, workflows_dir, jobs, zvars>>
       ELSE /\ current_workspace' = name
            /\ workflows_dir' = FilesIn(workspaces_dir, WorkflowsDir(name))
            /\ \E l \in Listings(workflows_dir') : jobs' = RefreshJobs(jobs, workflows_dir', l)
            /\ reply' = [op |-> "switch", name |-> name, status |-> 200]
    /\ UNCHANGED <<evars, hvars, svars, started, fires, requests, runs, memory_file, previous,
                   workspaces_dir, saved, zvars>>

\* delete_workspace (workspace_manager.py 75-87; main.py 118-124).
\* rmtree of workspaces_dir/. empties the directory and then fails at the
\* directory itself with an OSError, which the endpoint does not catch.
DeleteWorkspace(name) ==
    /\ started
    /\ IF \/ name = "default"
          \/ name = current_workspace
          \/ ~DirExists(workspaces_dir, WorkspaceDir(name))
       THEN /\ reply' = [op |-> "delete", name |-> name, status |-> 400]
            /\ UNCHANGED <<workspaces_dir, workflows_dir>>
       ELSE /\ workspaces_dir' = RmTree(workspaces_dir, WorkspaceDir(name))
            /\ workflows_dir' = FilesIn(workspaces_dir', WorkflowsDir(current_workspace))
            /\ reply' = [op |-> "delete", name |-> name,
                         status |-> IF WorkspaceDir(name) = <<>> THEN 500 ELSE 200]
    /\ UNCHANGED <<evars, hvars, svars, jobs, started, fires, requests, runs, memory_file,
                   previous, current_workspace, saved, zvars>>

\* save_workflow (main.py 175-190) in the active workspace.
SaveWorkflowIn(name, wf) ==
    /\ started
    /\ LET dir == WorkflowsDir(current_workspace)
           tree == MakeDirs(workspaces_dir, dir)
       IN  workspaces_dir' =
              [tree EXCEPT !.files = WithFile(tree.files, dir \o <<name \o ".json">>, wf)]
    /\ workflows_dir' = FilesIn(workspaces_dir', WorkflowsDir(current_workspace))
    /\ \E l \in Listings(workflows_dir') : jobs' = RefreshJobs(jobs, workflows_dir', l)
    /\ saved' = saved \cup {[workspace |-> current_workspace, name |-> name]}
    /\ reply' = [op |-> "save", name |-> name, status |-> 200]
    /\ UNCHANGED <<evars, hvars, svars, started, fires, requests, runs, memory_file, previous,
                   current_workspace, zvars>>

\* WorkspaceManager.__init__ and main.py 20-30: the default workspace is
\* there, it is the current one, and the scheduler watches its workflows.
InitWorkspaces ==
    /\ workflow = [nodes |-> <<>>, edges |-> <<>>]
    /\ store = NoStore
    /\ pc = "init"
    /\ frames = <<>>
    /\ contexts = <<>>
    /\ exc = ""
    /\ outcome = [status |-> "none"]
    /\ log = <<>>
    /\ lastSub = [d |-> 0]
    /\ pending_requests = <<>>
    /\ threads = <<>>
    /\ resumes = <<>>
    /\ nextRequest = 1
    /\ sink = "none"
    /\ events = <<>>
    /\ workflows_dir = <<>>
    /\ jobs = <<>>
    /\ started = FALSE
    /\ fires = <<>>
    /\ requests = <<>>
    /\ runs = <<>>
    /\ memory_file = <<>>
    /\ previous = [status |-> "none"]
    /\ workspaces_dir = [dirs |-> {<<"default">>, <<"default", "workflows">>,
                                    <<"default", "data">>},
                         files |-> <<>>]
    /\ current_workspace = "default"
    /\ reply = [op |-> "none"]
    /\ saved = {}
    /\ writers = <<>>
    /\ timers = [due |-> <<>>, fired |-> {}]
    /\ llm = [pc |-> "none"]

WorkspaceWorkflows == {WorkflowJson(<<CronNodeCfg(Ids[1], <<>>)>>)}

NextWorkspaces ==
    \/ SchedulerStart
    \/ \E name \in WorkspaceNames : CreateWorkspace(name)
    \/ \E name \in WorkspaceNames : SetActiveWorkspace(name)
    \/ \E name \in WorkspaceNames : DeleteWorkspace(name)
    \/ \E wf \in WorkspaceWorkflows : SaveWorkflowIn("daily", wf)

SpecWorkspaces == InitWorkspaces /\ [][NextWorkspaces]_vars

(***************************************************************************)
(* Runs served at once.  run_workflow_endpoint is a coroutine: it compiles *)
(* the workflow on the event loop and awaits asyncio.to_thread(flow.run),  *)
(* which hands the walk to a worker thread of the default executor and     *)
(* gives the loop back.  HumanInputNode.exec (wait_event.wait) and         *)
(* DelayNode.exec (time.sleep) block the worker thread of their run only.  *)
(***************************************************************************)
NodeKinds == {"plain", "human", "delay"}

Blocking(kind) == kind \in {"human", "delay"}

RunShapes == {<<"plain">>, <<"plain", "plain">>, <<"human", "plain">>, <<"delay", "plain">>,
              <<"plain", "human">>}

IdleRun == [pc |-> "idle", nodes |-> <<>>, at |-> 0, behind |-> {}]

SetRun(r, v) == [runs EXCEPT ![r] = v]

\* The runs that hold a worker thread.
Busy == {r \in DOMAIN runs : runs[r].pc \in {"running", "waiting"}}

\* flow.run called in the coroutine itself: one walk at a time.
WorkerFreeInline == Busy = {}

\* The executor has a thread for one more call.
WorkerFree == Cardinality(Busy) < DefaultWorkers

\* run_workflow_endpoint up to the await of to_thread (main.py 128-145,
\* engine.py 124-138): the walk is queued at the executor.
RunRequest(r) ==
    /\ runs[r].pc = "idle"
    /\ \A q \in 1..(r - 1) : runs[q].pc # "idle"
    /\ \E nodes \in RunShapes :
          runs' = SetRun(r, [pc |-> "queued", nodes |-> nodes, at |-> 1,
                             behind |-> {q \in DOMAIN runs : runs[q].pc = "waiting"}])
    /\ UNCHANGED <<evars, hvars, svars, kvars, memory_file, previous, wvars, zvars>>

\* A worker thread of the executor starts flow.run(shared_state).
WorkerTake(r) ==
    /\ runs[r].pc = "queued"
    /\ WorkerFree
    /\ runs' = SetRun(r, [runs[r] EXCEPT !.pc = "running"])
    /\ UNCHANGED <<evars, hvars, svars, kvars, memory_file, previous, wvars, zvars>>

\* The lifecycle of a node that does not block; after the last node
\* flow.run returns and the thread is given back.
NodeStep(r) ==
    /\ runs[r].pc = "running"
    /\ ~Blocking(runs[r].nodes[runs[r].at])
    /\ runs' = SetRun(r, [runs[r] EXCEPT
                            !.pc = IF runs[r].at = Len(runs[r].nodes) THEN "returned" ELSE "running",
                            !.at = @ + 1])
    /\ UNCHANGED <<evars, hvars, svars, kvars, memory_file, previous, wvars, zvars>>

\* HumanInputNode.exec reaches wait_event.wait, DelayNode.exec time.sleep.
NodeBlock(r) ==
    /\ runs[r].pc = "running"
    /\ Blocking(runs[r].nodes[runs[r].at])
    /\ runs' = SetRun(r, [runs[r] EXCEPT !.pc = "waiting"])
    /\ UNCHANGED <<evars, hvars, svars, kvars, memory_file, previous, wvars, zvars>>

\* The wait ends (response, timeout, end of the sleep) and the node's
\* lifecycle finishes.
NodeWake(r) ==
    /\ runs[r].pc = "waiting"
    /\ runs' = SetRun(r, [runs[r] EXCEPT
                            !.pc = IF runs[r].at = Len(runs[r].nodes) THEN "returned" ELSE "running",
                            !.at = @ + 1])
    /\ UNCHANGED <<evars, hvars, svars, kvars, memory_file, previous, wvars, zvars>>

\* The coroutine continues after the await and returns the result
\* (engine.py 140-141, main.py 147-150).
RunReturn(r) ==
    /\ runs[r].pc = "returned"
    /\ runs' = SetRun(r, [runs[r] EXCEPT !.pc = "done"])
    /\ UNCHANGED <<evars, hvars, svars, kvars, memory_file, previous, wvars, zvars>>

InitRuns ==
    /\ workflow = [nodes |-> <<>>, edges |-> <<>>]
    /\ store = NoStore
    /\ pc = "init"
    /\ frames = <<>>
    /\ contexts = <<>>
    /\ exc = ""
    /\ outcome = [status |-> "none"]
    /\ log = <<>>
    /\ lastSub = [d |-> 0]
    /\ pending_requests = <<>>
    /\ threads = <<>>
    /\ resumes = <<>>
    /\ nextRequest = 1
    /\ sink = "none"
    /\ events = <<>>
    /\ workflows_dir = <<>>
    /\ jobs = <<>>
    /\ started = FALSE
    /\ fires = <<>>
    /\ requests = <<>>
    /\ runs = [r \in 1..MaxRuns |-> IdleRun]
    /\ memory_file = <<>>
    /\ previous = [status |-> "none"]
    /\ workspaces_dir = [dirs |-> {}, files |-> <<>>]
    /\ current_workspace = "default"
    /\ reply = [op |-> "none"]
    /\ saved = {}
    /\ writers = <<>>
    /\ timers = [due |-> <<>>, fired |-> {}]
    /\ llm = [pc |-> "none"]

NextRuns ==
    \/ \E r \in DOMAIN runs : RunRequest(r)
    \/ \E r \in DOMAIN runs : WorkerTake(r)
    \/ \E r \in DOMAIN runs : NodeStep(r)
    \/ \E r \in DOMAIN runs : NodeBlock(r)
    \/ \E r \in DOMAIN runs : NodeWake(r)
    \/ \E r \in DOMAIN runs : RunReturn(r)

\* The executor's threads and the event loop keep running; nothing makes
\* a wait end.
FairRuns ==
    \A r \in 1..MaxRuns :
        /\ WF_vars(WorkerTake(r))
        /\ WF_vars(NodeStep(r))
        /\ WF_vars(NodeBlock(r))
        /\ WF_vars(RunReturn(r))

SpecRuns == InitRuns /\ [][NextRuns]_vars /\ FairRuns

(***************************************************************************)
(* Concurrent runs at persistent Memory nodes (nodes/data.py).  Each run   *)
(* has a thread of its own (asyncio.to_thread); prep reads the whole file  *)
(* and exec writes the whole dict back, with no lock in between.           *)
(***************************************************************************)
SetWriter(w, r) == [writers EXCEPT ![w] = r]

\* prep (lines 32-69): persistent_data = self._load_persistent()
WriterLoad(w) ==
    /\ writers[w].pc = "start"
    /\ writers' = SetWriter(w, [writers[w] EXCEPT !.pc = "loaded",
                                                  !.persistent_data = memory_file])
    /\ UNCHANGED <<evars, hvars, svars, kvars, runs, memory_file, previous, wvars, llm,
                   timers>>

\* A run that reads the file and writes it back in one step.
WriterSaveReloads(w) ==
    /\ writers[w].pc = "loaded"
    /\ LET p == MemoryRunPersistent(writers[w].node, writers[w].shared, memory_file)
       IN  /\ memory_file' = p.file
           /\ writers' = SetWriter(w, [writers[w] EXCEPT !.pc = "done",
                                                         !.shared = p.r.ctx])
    /\ UNCHANGED <<evars, hvars, svars, kvars, runs, previous, wvars, llm, timers>>

\* exec and post (lines 71-111, 160-174): the operation on the dict prep
\* loaded, then _save_persistent(storage) writes that dict to the file.
WriterSave(w) ==
    /\ writers[w].pc = "loaded"
    /\ LET p == MemoryRunPersistent(writers[w].node, writers[w].shared,
                                    writers[w].persistent_data)
       IN  /\ memory_file' = p.file
           /\ writers' = SetWriter(w, [writers[w] EXCEPT !.pc = "done",
                                                         !.shared = p.r.ctx])
    /\ UNCHANGED <<evars, hvars, svars, kvars, runs, previous, wvars, llm, timers>>

\* The file as earlier runs left it.
StoredFiles == {<<>>, <<[k |-> "k3", v |-> IntV(9)]>>, <<[k |-> "k1", v |-> IntV(9)]>>}

Writer(w, key, value) ==
    [pc |-> "start", node |-> PersistentMemoryCfg(Ids[w], "set", key, value),
     shared |-> EmptyContext, persistent_data |-> <<>>]

InitWriters ==
    /\ workflow = [nodes |-> <<>>, edges |-> <<>>]
    /\ store = NoStore
    /\ pc = "init"
    /\ frames = <<>>
    /\ contexts = <<>>
    /\ exc = ""
    /\ outcome = [status |-> "none"]
    /\ log = <<>>
    /\ lastSub = [d |-> 0]
    /\ pending_requests = <<>>
    /\ threads = <<>>
    /\ resumes = <<>>
    /\ nextRequest = 1
    /\ sink = "none"
    /\ events = <<>>
    /\ workflows_dir = <<>>
    /\ jobs = <<>>
    /\ started = FALSE
    /\ fires = <<>>
    /\ requests = <<>>
    /\ runs = <<>>
    /\ memory_file \in StoredFiles
    /\ previous = [status |-> "none"]
    /\ workspaces_dir = [dirs |-> {}, files |-> <<>>]
    /\ current_workspace = "default"
    /\ reply = [op |-> "none"]
    /\ saved = {}
    /\ llm = [pc |-> "none"]
    /\ \E ks \in [1..MaxWriters -> {"k1", "k2"}], vs \in [1..MaxWriters -> {"1", "2"}] :
          writers = [w \in 1..MaxWriters |-> Writer(w, ks[w], vs[w])]
    /\ timers = [due |-> <<>>, fired |-> {}]

NextWriters ==
    \/ \E w \in DOMAIN writers : WriterLoad(w)
    \/ \E w \in DOMAIN writers : WriterSave(w)

SpecWriters == InitWriters /\ [][NextWriters]_vars

(***************************************************************************)
(* The scheduler's clock.  refresh_jobs removes every job and adds a job   *)
(* with a new trigger for every workflow file, changed or not.  A new      *)
(* IntervalTrigger starts one interval after the moment it is made, a job  *)
(* that fires is due again one interval later.                             *)
(***************************************************************************)
\* The time to the first fire of each job that was just added.
FirstDue(js) == [n \in DOMAIN js |-> js[n].trigger.every]

\* SchedulerService.start (lines 17-20)
TimerStart ==
    /\ ~started
    /\ started' = TRUE
    /\ \E l \in Listings(workflows_dir) :
          /\ jobs' = RefreshJobs(jobs, workflows_dir, l)
          /\ timers' = [timers EXCEPT !.due = FirstDue(jobs')]
    /\ UNCHANGED <<evars, hvars, svars, workflows_dir, fires, requests, runs, memory_file,
                   previous, wvars, llm, writers>>

IntervalNode(every) ==
    CronNodeCfg("n1", <<[k |-> "schedule_type", v |-> Str("Interval")],
                        [k |-> "interval_value", v |-> Str(Numerals[every])],
                        [k |-> "interval_unit", v |-> Str("Seconds")]>>)

\* The other workflows that are saved while "daily" waits.
OtherWorkflows ==
    {WorkflowJson(<<PlainNodeCfg("n1")>>)}
    \cup {WorkflowJson(<<IntervalNode(every)>>) : every \in 1..MaxInterval}

\* main.py save_workflow (lines 175-190) of another workflow: write the
\* file, refresh.
TimerSave ==
    /\ started
    /\ \E wf \in OtherWorkflows :
          /\ workflows_dir' = WithFile(workflows_dir, "other.json", wf)
          /\ \E l \in Listings(workflows_dir') :
                /\ jobs' = RefreshJobs(jobs, workflows_dir', l)
                /\ timers' = [timers EXCEPT !.due = FirstDue(jobs')]
    /\ UNCHANGED <<evars, hvars, svars, started, fires, requests, runs, memory_file,
                   previous, wvars, llm, writers>>

\* main.py delete_workflow (lines 204-219) of another workflow.
TimerDelete ==
    /\ started
    /\ "other.json" \in DOMAIN workflows_dir
    /\ workflows_dir' = WithoutFile(workflows_dir, "other.json")
    /\ \E l \in Listings(workflows_dir') :
          /\ jobs' = RefreshJobs(jobs, workflows_dir', l)
          /\ timers' = [timers EXCEPT !.due = FirstDue(jobs')]
    /\ UNCHANGED <<evars, hvars, svars, started, fires, requests, runs, memory_file,
                   previous, wvars, llm, writers>>

\* One second passes; a job that is due fires before the next one does.
Tick ==
    /\ started
    /\ \A n \in DOMAIN timers.due : timers.due[n] > 0
    /\ timers' = [timers EXCEPT !.due = [n \in DOMAIN timers.due |-> timers.due[n] - 1]]
    /\ UNCHANGED <<evars, hvars, svars, kvars, runs, memory_file, previous, wvars, llm,
                   writers>>

\* The scheduler runs execute_job for a job that is due (lines 76-82,
\* 88-89).
TimerFire(n) ==
    /\ started
    /\ n \in DOMAIN timers.due
    /\ timers.due[n] = 0
    /\ timers' = [due |-> [timers.due EXCEPT ![n] = jobs[n].trigger.every],
                  fired |-> timers.fired \cup {n}]
    /\ UNCHANGED <<evars, hvars, svars, kvars, runs, memory_file, previous, wvars, llm,
                   writers>>

InitTimers ==
    /\ workflow = [nodes |-> <<>>, edges |-> <<>>]
    /\ store = NoStore
    /\ pc = "init"
    /\ frames = <<>>
    /\ contexts = <<>>
    /\ exc = ""
    /\ outcome = [status |-> "none"]
    /\ log = <<>>
    /\ lastSub = [d |-> 0]
    /\ pending_requests = <<>>
    /\ threads = <<>>
    /\ resumes = <<>>
    /\ nextRequest = 1
    /\ sink = "none"
    /\ events = <<>>
    /\ \E every \in 1..MaxInterval :
          workflows_dir = [f \in {"daily.json"} |-> WorkflowJson(<<IntervalNode(every)>>)]
    /\ jobs = <<>>
    /\ started = FALSE
    /\ fires = <<>>
    /\ requests = <<>>
    /\ runs = <<>>
    /\ memory_file = <<>>
    /\ previous = [status |-> "none"]
    /\ workspaces_dir = [dirs |-> {}, files |-> <<>>]
    /\ current_workspace = "default"
    /\ reply = [op |-> "none"]
    /\ saved = {}
    /\ writers = <<>>
    /\ timers = [due |-> <<>>, fired |-> {}]
    /\ llm = [pc |-> "none"]

NextTimers ==
    \/ TimerStart
    \/ TimerSave
    \/ TimerDelete
    \/ Tick
    \/ \E n \in {"daily", "other"} : TimerFire(n)

\* The process starts the scheduler, time passes, and the scheduler's loop
\* runs the jobs that are due; nothing obliges anyone to save or delete.
FairTimers ==
    /\ WF_vars(TimerStart)
    /\ WF_vars(Tick)
    /\ \A n \in {"daily", "other"} : WF_vars(TimerFire(n))

SpecTimers == InitTimers /\ [][NextTimers]_vars /\ FairTimers


(***************************************************************************)
(* Properties.                                                             *)
(***************************************************************************)
LastEntry == log[Len(log)]

\* The place of the last `done` of node id at depth d before place n, or 0.
LastDoneBefore(id, d, n) ==
    LET dones == {j \in 1..(n - 1) : log[j].id = id /\ log[j].d = d /\ log[j].act = "done"}
    IN  IF dones = {} THEN 0 ELSE CHOOSE j \in dones : \A i \in dones : i <= j

\* The visits of node id at depth d before place n, since its last `done`.
VisitsSince(id, d, n) ==
    Cardinality({j \in (LastDoneBefore(id, d, n) + 1)..(n - 1) :
                    log[j].id = id /\ log[j].d = d})

\* The lifecycle that ended last belongs to a node of the run's own workflow
\* (not of a sub-run) and that node has the given type.
LastEntryIs(type) ==
    /\ log # <<>>
    /\ LastEntry.d = 1
    /\ LastEntry.id \in PfNodeIds(workflow)
    /\ PfNode(workflow, LastEntry.id).type = type

TimesRun(id) == Cardinality({j \in 1..Len(log) : log[j].id = id})

FirstRun(id) == CHOOSE j \in 1..Len(log) : log[j].id = id /\ \A i \in 1..(j - 1) : log[i].id # id

\* C1: a Loop node over a JSON array of n items returns `loop` on its visits
\* 0..n-1, visit k leaving memory[loop_var] = item k and
\* memory[loop_var + "_index"] = k, and returns `done` on visit n, leaving no
\* loop state in the context.
C1_LoopVisits ==
    (LastEntryIs("loop") /\ PfNode(workflow, LastEntry.id).data.items.form = "array") =>
        LET node == PfNode(workflow, LastEntry.id)
            items == node.data.items.arr
            var == node.data.loop_var
            k == VisitsSince(node.id, 1, Len(log))
            ctx == contexts[1]
        IN  IF k < Len(items)
            THEN /\ LastEntry.act = "loop"
                 /\ DictHas(ctx.memory, var) /\ DictGet(ctx.memory, var) = items[k + 1]
                 /\ DictHas(ctx.memory, var \o "_index")
                 /\ DictGet(ctx.memory, var \o "_index") = IntV(k)
            ELSE /\ k = Len(items)
                 /\ LastEntry.act = "done"
                 /\ ~DictHas(ctx.state, LoopKey(node))

C1_Witness ==
    /\ LastEntryIs("loop")
    /\ PfNode(workflow, LastEntry.id).data.items.form = "array"
    /\ Len(PfNode(workflow, LastEntry.id).data.items.arr) >= 3
    /\ LastEntry.act = "done"
    /\ VisitsSince(LastEntry.id, 1, Len(log)) = Len(PfNode(workflow, LastEntry.id).data.items.arr)

\* C2: a While node whose condition is always true and whose max_iterations
\* is N returns `continue` on its visits 0..N-1 and `done` on visit N,
\* leaving no iteration state in the context.
C2_WhileExactlyN ==
    (/\ LastEntryIs("while_loop")
     /\ PfNode(workflow, LastEntry.id).data.condition = "True"
     /\ IntParses(PfNode(workflow, LastEntry.id).data.max_iterations)) =>
        LET node == PfNode(workflow, LastEntry.id)
            N == IntOf(node.data.max_iterations)
            k == VisitsSince(node.id, 1, Len(log))
        IN  IF k < N THEN LastEntry.act = "continue"
            ELSE /\ k = N
                 /\ LastEntry.act = "done"
                 /\ ~DictHas(contexts[1].state, WhileKey(node))

\* C3: whatever the condition and the memory, a While node returns
\* `continue` at most max_iterations times between being entered and
\* returning `done`.
C3_WhileCapWins ==
    (/\ LastEntryIs("while_loop")
     /\ IntParses(PfNode(workflow, LastEntry.id).data.max_iterations)
     /\ LastEntry.act = "continue") =>
        VisitsSince(LastEntry.id, 1, Len(log)) + 1
            <= IntOf(PfNode(workflow, LastEntry.id).data.max_iterations)

\* The edge names of the model's edges.
EdgeNames == {HandleNames[h] : h \in DOMAIN HandleNames}

\* The edges leaving (s, name) fan out to distinct Memory `set` nodes that
\* have no other incoming edge, and s is a root.
IsFanOut(s, name) ==
    LET t == SuccessorsMap(workflow, s, name)
    IN  /\ Len(t) >= 2
        /\ InDegree(workflow, s) = 0
        /\ \A i \in 1..Len(t) :
              /\ InDegree(workflow, t[i]) = 1
              /\ PfNode(workflow, t[i]).type = "memory"
              /\ PfNode(workflow, t[i]).data.operation = "set"
        /\ \A i, j \in 1..Len(t) : i # j => t[i] # t[j]

\* The source ran and selected the output `name`.
TookOutput(s, name) ==
    \E j \in 1..Len(log) :
        /\ log[j].id = s
        /\ (IF log[j].act = NoneAction THEN "default" ELSE log[j].act) = name

\* C4: in a completed run, when the edges leaving (source, edge name) lead
\* to several distinct Memory nodes that have no other incoming edge, the
\* source is a root and it selected that output, each target ran exactly
\* once, in edge-declaration order, against the run's one shared context:
\* the key each one sets is in memory.
C4_FanOut ==
    (pc = "returned" /\ outcome.status = "completed") =>
        \A s \in PfNodeIds(workflow), name \in EdgeNames :
            (IsFanOut(s, name) /\ TookOutput(s, name)) =>
                LET t == SuccessorsMap(workflow, s, name)
                IN  /\ \A i \in 1..Len(t) :
                          /\ TimesRun(t[i]) = 1
                          /\ log[FirstRun(t[i])].d = 1
                          /\ DictHas(contexts[1].memory,
                                     MemoryFullKey(PfNode(workflow, t[i])))
                    /\ \A i, j \in 1..Len(t) :
                          i < j => FirstRun(t[i]) < FirstRun(t[j])

C4_Witness ==
    /\ pc = "returned" /\ outcome.status = "completed"
    /\ \E s \in PfNodeIds(workflow) : IsFanOut(s, "default") /\ TookOutput(s, "default")

SingleNodeWorkflow == Len(workflow.nodes) = 1 /\ workflow.edges = <<>>

\* C5 as stated, for a node of a registered PocketFlow node type: a workflow
\* of one node and no edges compiles to one root, the run executes the node
\* once and results holds exactly one entry.
C5_OneEntry ==
    (/\ SingleNodeWorkflow /\ pc # "init"
     /\ workflow.nodes[1].type \in RegisteredTypes
     /\ ~IsPlainClass(workflow.nodes[1].type)) =>
        /\ BuildGraph(workflow).start = NodeRef(workflow.nodes[1].id)
        /\ pc = "returned" =>
              /\ Len(log) = 1
              /\ outcome.status = "completed"
              /\ Len(outcome.results) = 1

\* C5 amended: a workflow of one node of a registered PocketFlow node type
\* and no edges compiles to that node as its single root; the run starts the
\* node's lifecycle exactly once, and a run that completes leaves in results
\* exactly one entry per key of the node, its name and its id, each holding
\* the value the node committed: two entries when the label is non-empty
\* and differs from the id, one otherwise.
C5_OneEntryPerKey ==
    (/\ SingleNodeWorkflow /\ pc # "init"
     /\ workflow.nodes[1].type \in RegisteredTypes
     /\ ~IsPlainClass(workflow.nodes[1].type)) =>
        LET node == workflow.nodes[1]
        IN  /\ BuildGraph(workflow).start = NodeRef(node.id)
            /\ pc # "raised"
            /\ pc = "returned" =>
                  /\ Len(log) = 1 /\ log[1].id = node.id
                  /\ outcome.status = "completed" =>
                        /\ DictKeys(outcome.results) = {NodeName(node), node.id}
                        /\ Len(outcome.results) = Cardinality({NodeName(node), node.id})
                        /\ \A i \in 1..Len(outcome.results) :
                              outcome.results[i].v = log[1].val

C5_Witness ==
    /\ SingleNodeWorkflow /\ pc = "returned" /\ outcome.status = "completed"
    /\ workflow.nodes[1].label = "A"
    /\ Len(outcome.results) = 2

UniqueKeys(d) == \A i, j \in 1..Len(d) : i # j => d[i].k # d[j].k

\* C6: in every results map every key occurs once, and after a lifecycle
\* has committed, the last entry of the results it committed to is that
\* node's (keyed by its id) and holds the value it committed.
C6_ResultsRecency ==
    /\ \A c \in 1..Len(contexts) : UniqueKeys(contexts[c].results)
    /\ (log # <<>> /\ LastEntry.act # "<raise>" /\ pc = "running") =>
          LET r == contexts[LastEntry.d].results
          IN  /\ r # <<>>
              /\ r[Len(r)].k = LastEntry.id
              /\ r[Len(r)].v = LastEntry.val

C6_Witness ==
    /\ log # <<>> /\ pc = "running" /\ LastEntry.act = "loop"
    /\ TimesRun(LastEntry.id) >= 2
    /\ Len(contexts[1].results) >= 3

NoZeroInDegree(wf) ==
    \A id \in PfNodeIds(wf) : \E i \in 1..Len(wf.edges) : wf.edges[i].target = id

\* C7: when every instantiated node is the target of some edge (or there
\* is no instantiated node), run_workflow fails with the no-start-node
\* error, and no lifecycle is executed.
C7_NoStartNode ==
    (NoZeroInDegree(workflow) /\ pc # "init") =>
        /\ pc = "raised"
        /\ outcome = [status |-> "raised", error |-> NoStartNode]
        /\ log = <<>> /\ contexts = <<>> /\ frames = <<>>

C7_Witness ==
    /\ pc = "raised"
    /\ Len(workflow.nodes) = 2
    /\ Cardinality(PfNodeIds(workflow)) = 2
    /\ Len(workflow.edges) = 2
    /\ workflow.edges[1].source # workflow.edges[1].target

\* The SubWorkflow node's exec has just come back to the parent run.
AfterSubWorkflow ==
    /\ lastSub.d > 0
    /\ log # <<>>
    /\ LastEntry.id = lastSub.node.id /\ LastEntry.d = lastSub.d
    /\ Len(contexts) = lastSub.d

\* The memory keys the sub-run wrote: those it ended with that the memory
\* it was started with did not hold, or held with another value.
SubWritten ==
    LET began == IF lastSub.node.data.pass_memory THEN lastSub.before ELSE <<>>
    IN  {k \in DictKeys(lastSub.sub) :
            ~DictHas(began, k) \/ DictGet(began, k) # DictGet(lastSub.sub, k)}

StoredPayloads(rid) ==
    {resumes[r].payload : r \in {q \in 1..MaxResumes :
        resumes[q].request_id = rid /\ resumes[q].stored}}

\* Thread t was blocked, was woken by a resume before any timeout, and its
\* node has finished; the request was answered with the one payload p.
ResumedWith(t, p) ==
    /\ threads[t].pc = "done"
    /\ threads[t].signaled
    /\ StoredPayloads(threads[t].request_id) = {p}

\* C8: a HumanInput node that was blocked and then resumed before its
\* timeout with a record payload returns `approved` when the payload's
\* `approved` field is true, and every field of the payload is then in
\* memory with the payload's value.
C8_ResumedApproved ==
    \A t \in 1..MaxThreads, p \in Payloads :
        (ResumedWith(t, p) /\ p.t = "map") =>
            /\ (DictHas(p.m, "approved") /\ DictGet(p.m, "approved") = BoolV(TRUE))
                  => threads[t].action = "approved"
            /\ \A k \in DictKeys(p.m) :
                  /\ DictHas(threads[t].shared.memory, k)
                  /\ DictGet(threads[t].shared.memory, k) = DictGet(p.m, k)

C8_Witness ==
    \E t \in 1..MaxThreads, p \in Payloads :
        /\ ResumedWith(t, p) /\ p.t = "map"
        /\ DictGetOr(p.m, "approved", None) = BoolV(TRUE)
        /\ threads[t].action = "approved"
        /\ DictGet(threads[t].before.memory, "comment") = Str("old")
        /\ DictGet(threads[t].shared.memory, "comment") = Str("ok")

\* Thread t's wait ended by the timeout, and what followed has ended (with
\* a sink that raises, exec ends before the wait).
TimedOut(t) ==
    /\ threads[t].pc \in {"done", "raised"}
    /\ threads[t].request_id # 0
    /\ ~threads[t].signaled
    /\ sink # "raises"

\* C9: a HumanInput node with timeout > 0 that is not resumed before the
\* timeout elapses raises nothing and returns an error outcome as its
\* value, removes its entry from pending_requests, leaves memory as it
\* was, and returns neither `approved` nor `rejected`.
C9_TimeoutOutcome ==
    \A t \in 1..MaxThreads :
        TimedOut(t) =>
            /\ threads[t].pc = "done"
            /\ threads[t].prep_res.timeout > 0
            /\ DictGetOr(threads[t].exec_res, "error", None) = Str("Timeout")
            /\ DictGetOr(threads[t].shared.results, threads[t].node.id, None)
                  = Str("Timeout")
            /\ ~DictHas(threads[t].exec_res, "success")
            /\ ~DictHas(pending_requests, threads[t].request_id)
            /\ threads[t].shared.memory = threads[t].before.memory
            /\ threads[t].action \notin {"approved", "rejected"}

C9_Witness ==
    \E t \in 1..MaxThreads :
        /\ TimedOut(t) /\ threads[t].pc = "done"
        /\ threads[t].before.memory # <<>>
        /\ \E r \in 1..MaxResumes :
              /\ resumes[r].request_id = threads[t].request_id
              /\ resumes[r].pc = "keyerror"

\* The result that was the most recent one when the lifecycle that ended
\* last began: the value of the lifecycle before it, None when there was
\* none.
PreviousValue == IF Len(log) >= 2 THEN log[Len(log) - 1].val ELSE None

\* Some configured pattern occurs in the text.
SomePatternIn(node, text) ==
    \E i \in 1..Len(ErrorPatterns(node)) : Contains(text, ErrorPatterns(node)[i])

\* C11 as stated: a TryCatch node returns `error` exactly when the string
\* form of the most recent result contains one of its patterns.
C11_ErrorIffStrContains ==
    LastEntryIs("try_catch") =>
        (LastEntry.act = "error"
            <=> SomePatternIn(PfNode(workflow, LastEntry.id), PyStr(PreviousValue)))

\* C11 amended: a TryCatch node returns `error` exactly when the most
\* recent result is truthy and its string form contains one of the
\* configured (comma-separated, trimmed, non-empty) patterns; it then
\* commits that string and sets memory.last_error to it.  Otherwise (also
\* for a falsy result such as None, 0 or "", whatever its string form) it
\* returns `success` and commits the previous value unchanged.
C11_ErrorIffTruthyStrContains ==
    LastEntryIs("try_catch") =>
        LET node == PfNode(workflow, LastEntry.id)
            prev == PreviousValue
            hit == Truthy(prev) /\ SomePatternIn(node, PyStr(prev))
        IN  IF hit
            THEN /\ LastEntry.act = "error"
                 /\ LastEntry.val = Str(PyStr(prev))
                 /\ DictGetOr(contexts[1].memory, "last_error", None) = Str(PyStr(prev))
            ELSE /\ LastEntry.act = "success"
                 /\ LastEntry.val = prev
                 /\ ~DictHas(contexts[1].memory, "last_error")

C11_Witness ==
    /\ LastEntryIs("try_catch")
    /\ LastEntry.act = "error"
    /\ PreviousValue = Str("it failed, no")
    /\ ErrorPatterns(PfNode(workflow, LastEntry.id)) = <<"x", "failed">>

(***************************************************************************)
(* Several roots: build_graph hands the list of zero-in-degree nodes to    *)
(* Flow(start=...).                                                        *)
(***************************************************************************)

\* Every root ran, and the roots ran first in node-declaration order.
RootsRunInOrder ==
    LET roots == Roots(workflow)
    IN  /\ \A i \in 1..Len(roots) : TimesRun(roots[i]) >= 1
        /\ \A i, j \in 1..Len(roots) :
              i < j => FirstRun(roots[i]) < FirstRun(roots[j])

\* C12: when a workflow has two or more zero-in-degree nodes, a run
\* executes every root (and its chain) in node-declaration order against
\* one shared context and returns status `completed`.
C12_AllRootsRun ==
    (pc = "returned" /\ Len(contexts) = 1 /\ Len(Roots(workflow)) >= 2
        /\ \A id \in PfNodeIds(workflow) : PfNode(workflow, id).type = "memory")
        => /\ outcome.status = "completed"
           /\ RootsRunInOrder

(***************************************************************************)
(* The outcome of run_workflow.                                            *)
(***************************************************************************)

\* A lifecycle of the run's own walk raised and nothing caught it.
WalkRaised ==
    /\ log # <<>>
    /\ LastEntry.act = "<raise>"
    /\ LastEntry.d = 1

\* C13: if a node's prepare, compute or finalize raises during the walk,
\* run_workflow does not raise but returns {status: "error", error: message};
\* if the walk ends without an error it returns {status: "completed",
\* results} with the results of the run's context.  run_workflow raises
\* only before the walk (a workflow that does not compile).
C13_RunOutcome ==
    /\ pc = "raised" => (log = <<>> /\ exc = "")
    /\ pc = "returned" =>
          IF WalkRaised
          THEN outcome = [status |-> "error", error |-> exc] /\ exc # ""
          ELSE outcome = [status |-> "completed", results |-> contexts[1].results]
               /\ exc = ""

C13_Witness ==
    /\ pc = "returned"
    /\ LastEntryIs("while_loop")
    /\ LastEntry.act = "<raise>"
    /\ Len(log) >= 2
    /\ outcome.status = "error"

(***************************************************************************)
(* Events.                                                                 *)
(***************************************************************************)

\* The lifecycles of nodes that ended without raising, oldest first.
Finalized == SelectSeq(log, LAMBDA e : e.act # "<raise>")

EventsOfType(type) == SelectSeq(events, LAMBDA e : e.type = type)

\* C14: during a run with an Event Sink attached, a node_start event with
\* the node's id is emitted before each execution of each node's
\* lifecycle: every lifecycle that ended has its node_start.
C14_NodeStartEmitted ==
    (sink = "ok" /\ log # <<>> /\ LastEntry.id \in PfNodeIds(workflow) /\ LastEntry.d = 1)
        => \E i \in 1..Len(events) :
              events[i].type = "node_start" /\ events[i].node_id = LastEntry.id

\* C15: after each node finalizes, exactly one node_end and then exactly
\* one state_update are emitted for that execution (to a sink that is
\* attached and returns), and the state_update snapshot of results and
\* memory already holds what the node just committed: the events are the
\* pairs of the finalized lifecycles in order, and the last snapshot is the
\* context as the last lifecycle left it.
C15_EndThenSnapshot ==
    sink = "ok" =>
        /\ Len(events) = 2 * Len(Finalized)
        /\ \A i \in 1..Len(Finalized) :
              LET end == events[2 * i - 1]
                  upd == events[2 * i]
              IN  /\ end.type = "node_end" /\ end.node_id = Finalized[i].id
                  /\ upd.type = "state_update" /\ upd.node_id = Finalized[i].id
                  /\ DictHas(upd.results, Finalized[i].id)
                  /\ DictGet(upd.results, Finalized[i].id) = Finalized[i].val
                  /\ LastValue(upd.results) = Finalized[i].val
        /\ (log # <<>> /\ LastEntry.act # "<raise>") =>
              /\ events[Len(events)].results = contexts[LastEntry.d].results
              /\ events[Len(events)].memory = contexts[LastEntry.d].memory

C15_Witness ==
    /\ sink = "ok"
    /\ LastEntryIs("memory")
    /\ LastEntry.act # "<raise>"
    /\ Len(Finalized) >= 2
    /\ LastEntry.val.t = "str"
    /\ events[Len(events)].memory # <<>>

\* C16: when a node's prepare, compute or finalize raises during a run
\* with an Event Sink attached, a node_error event with that node's id and
\* the error text is emitted, and the error then propagates to the run.
C16_NodeErrorEmitted ==
    (sink = "ok" /\ pc = "returned" /\ WalkRaised /\ LastEntry.id \in PfNodeIds(workflow))
        => /\ \E i \in 1..Len(events) :
                 /\ events[i].type = "node_error"
                 /\ events[i].node_id = LastEntry.id
                 /\ events[i].error = exc
           /\ outcome = [status |-> "error", error |-> exc]

\* C17: an Event Sink call that raises never aborts node execution, for
\* every node type, HumanInput's input-required event included: with a sink
\* whose calls raise, no HumanInput node's lifecycle ends by an exception.
C17_SinkNeverAborts ==
    sink = "raises" => \A t \in 1..MaxThreads : threads[t].pc # "raised"

\* Thread t is inside HumanInputNode.exec, after the registration.
InCompute(t) == threads[t].pc \in {"waiting", "signaled", "expired", "taken"}

\* C19: in every reachable state pending_requests has an entry for request
\* id r only while the HumanInput node that created r is still executing
\* its compute phase; once that phase has ended in any way (resumed, timed
\* out, aborted by an error) no entry for r remains.
C19_EntryOnlyWhileComputing ==
    \A r \in DictKeys(pending_requests) :
        \E t \in 1..MaxThreads : threads[t].request_id = r /\ InCompute(t)

(***************************************************************************)
(* Several suspensions at once.                                            *)
(***************************************************************************)

EntryOf(reg, rid) == DictGet(reg, rid)

\* What one step of the resume of caller r did, and what it left alone.
ResumeStepIsolated(r) ==
    LET rid == resumes'[r].request_id
    IN  /\ threads' = threads
        /\ IF DictHas(pending_requests, rid)
           THEN /\ resumes'[r].pc \in {"stored", "done"}
                /\ DictKeys(pending_requests') = DictKeys(pending_requests)
                /\ \A k \in DictKeys(pending_requests) \ {rid} :
                      EntryOf(pending_requests', k) = EntryOf(pending_requests, k)
                /\ resumes'[r].pc = "stored" =>
                      EntryOf(pending_requests', rid) =
                          [EntryOf(pending_requests, rid) EXCEPT
                              !.response = resumes'[r].payload]
                /\ resumes'[r].pc = "done" =>
                      EntryOf(pending_requests', rid) =
                          [EntryOf(pending_requests, rid) EXCEPT !.event = TRUE]
           ELSE /\ resumes'[r].pc = "keyerror"
                /\ pending_requests' = pending_requests

\* A node leaves its wait as signaled only after a resume for its own
\* request id has run to its end.
WokenByOwnResume(t) ==
    (threads[t].pc = "waiting" /\ threads'[t].pc = "signaled") =>
        \E r \in DOMAIN resumes :
            resumes[r].pc = "done" /\ resumes[r].request_id = threads[t].request_id

\* C18: with several HumanInput nodes of different runs blocked at once, a
\* resume for request id r stores its payload in, and wakes, only the node
\* that registered r; every other entry keeps its response (None while
\* nobody answered it) and its event, and a resume for an id that is not
\* in the registry fails at the lookup (KeyError) and changes no entry.
C18_ResumeIsolation ==
    [][/\ \A r \in DOMAIN resumes : resumes'[r] # resumes[r] => ResumeStepIsolated(r)
       /\ \A t \in DOMAIN threads : WokenByOwnResume(t)]_vars

C18_Witness ==
    /\ Len(threads) >= 2
    /\ threads[2].signaled /\ threads[2].pc = "done"
    /\ threads[1].pc = "waiting"
    /\ EntryOf(pending_requests, threads[1].request_id).response = None
    /\ ~EntryOf(pending_requests, threads[1].request_id).event
    /\ \E r \in DOMAIN resumes : resumes[r].pc = "keyerror" /\ ~resumes[r].stored

(***************************************************************************)
(* The job set after refresh_jobs.                                         *)
(***************************************************************************)

\* The .json files of the directory that hold a workflow (a JSON dict).
WorkflowFiles ==
    {f \in DOMAIN workflows_dir :
        /\ EndsWith(f, ".json")
        /\ workflows_dir[f].kind = "json"
        /\ workflows_dir[f].value.t = "map"}

FileCronConfigs(f) ==
    LET nodes == DictGetOr(workflows_dir[f].value.m, "nodes", ListV(<<>>)).l
    IN  SelectSeq([i \in 1..Len(nodes) |->
                      IF IsCronNode(nodes[i])
                      THEN [cron |-> TRUE, data |-> DictGetOr(nodes[i].m, "data", MapV(<<>>)).m]
                      ELSE [cron |-> FALSE, data |-> <<>>]],
                  LAMBDA n : n.cron)

\* Some schedule node of the file has a trigger that can be built.
SomeUsable(f) ==
    \E i \in 1..Len(FileCronConfigs(f)) : TriggerOf(FileCronConfigs(f)[i].data) # NoTrigger

\* The first schedule node of the file has a trigger that can be built.
FirstUsable(f) ==
    /\ FileCronConfigs(f) # <<>>
    /\ TriggerOf(FileCronConfigs(f)[1].data) # NoTrigger

C21_FiredJobRuns ==
    \A i \in 1..Len(fires) :
        DictNodeIds(fires[i].workflow) # <<>> =>
            fires[i].ran # <<>> /\ fires[i].logged = ""

\* C22: an error raised while a scheduled job executes is caught inside
\* that job: nothing leaves execute_job, the job stays in the job set (so
\* it fires again at its next trigger), and no other job is removed.
C22_ErrorStaysInJob ==
    [][fires' # fires =>
          /\ jobs' = jobs
          /\ fires'[Len(fires')].escaped = ""
          /\ fires'[Len(fires')].name \in DOMAIN jobs']_vars

C22_Witness ==
    /\ Len(fires) = 2
    /\ fires[1].name = fires[2].name
    /\ fires[1].logged # "" /\ fires[2].logged # ""
    /\ Cardinality(DOMAIN jobs) = 2

(***************************************************************************)
(* Refreshes that interleave.                                              *)
(***************************************************************************)

AllReturned == \A r \in DOMAIN requests : requests[r].pc = "done"

\* C23: refresh() rebuilds the job set atomically: when the refresh calls
\* of concurrent save and delete requests interleave, once all of them
\* have returned the job set is the one derived from the final state of
\* the workflow store, so no job remains for a deleted workflow.
C23_RefreshAtomic ==
    (started /\ requests # <<>> /\ AllReturned) =>
        DOMAIN jobs = {JobName(f) : f \in {g \in WorkflowFiles : FirstUsable(g)}}

(***************************************************************************)
(* Runs that do not wait for each other.                                   *)
(***************************************************************************)

NeverBlocks(r) == \A i \in 1..Len(runs[r].nodes) : ~Blocking(runs[r].nodes[i])

\* C24: while a run is blocked in a HumanInput or Delay node, a run
\* started afterwards executes its nodes and completes without waiting
\* for the first: a queued run whose own nodes do not block reaches its
\* end whether or not the blocked runs are ever released.
C24_RunsDoNotWait ==
    \A r \in 1..MaxRuns :
        (runs[r].pc = "queued" /\ NeverBlocks(r)) ~> (runs[r].pc = "done")

\* A run that started behind a blocked run is done and that run is
\* still blocked.
C24_Witness ==
    \E r \in DOMAIN runs :
        /\ runs[r].pc = "done"
        /\ runs[r].at = Len(runs[r].nodes) + 1
        /\ \E q \in runs[r].behind : runs[q].pc = "waiting"

(***************************************************************************)
(* Two runs of one workflow.                                               *)
(***************************************************************************)

UsesMemoryFile ==
    \E i \in 1..Len(workflow.nodes) : IsPersistentMemory(workflow.nodes[i])

SecondRunEnded == previous.status = "ran" /\ pc = "returned"

SameAsFirst == outcome = previous.outcome /\ log = previous.log

C26_DefaultAndCurrentExist ==
    /\ "default" \in ListWorkspaces(workspaces_dir)
    /\ DirExists(workspaces_dir, WorkspaceDir(current_workspace))

IsSet(d, k) == DictHas(d, k) /\ DictGet(d, k) # Str("")

ByPrecedence(key, shared_key, default) ==
    IF IsSet(llm.config, key) THEN DictGet(llm.config, key)
    ELSE IF IsSet(llm.shared, shared_key) THEN DictGet(llm.shared, shared_key)
    ELSE default

\* C28: an LLM node resolves each of api_base, api_key and model by the
\* precedence node config > shared context > application default: the
\* node's own value when set, otherwise the shared context's value when
\* set, otherwise the application default.
C28_SettingsByPrecedence ==
    llm.pc = "ready" =>
        /\ llm.api_base = ByPrecedence("api_base", "llm_base_url", LLM_BASE_URL)
        /\ llm.api_key = ByPrecedence("api_key", "llm_api_key", LLM_API_KEY)
        /\ llm.model = ByPrecedence("model", "llm_model", LLM_MODEL)

\* The three levels decide one setting each: the node's own model, the
\* address the Start node put into the shared dict, the default key.
C28_Witness ==
    /\ llm.pc = "ready"
    /\ IsSet(llm.config, "model") /\ IsSet(llm.shared, "llm_model")
    /\ llm.model = DictGet(llm.config, "model")
    /\ ~IsSet(llm.config, "api_base") /\ llm.api_base = Str("http://start/v1")
    /\ DictHas(llm.config, "api_key") /\ ~IsSet(llm.shared, "llm_api_key")
    /\ llm.api_key = LLM_API_KEY

(***************************************************************************)
(* Routing.                                                                *)
(***************************************************************************)

\* The edges of wf that leave node id under the edge name `name` and join
\* two nodes of the compiled graph.
EdgesFrom(wf, id, name) ==
    {i \in 1..Len(wf.edges) :
        /\ wf.edges[i].source = id
        /\ EdgeName(wf.edges[i]) = name
        /\ wf.edges[i].source \in PfNodeIds(wf)
        /\ wf.edges[i].target \in PfNodeIds(wf)}

SelectedEdge(act) == IF act = NoneAction THEN "default" ELSE act

\* The place the walk is at is the one the edges es of wf lead to: no
\* edge, the walk of this flow is over; one edge, its target; several, all
\* their targets.
RoutedAlong(curr, wf, es) ==
    CASE es = {} -> curr = NoRef
      [] Cardinality(es) = 1 -> \E i \in es : curr = NodeRef(wf.edges[i].target)
      [] OTHER -> /\ curr.t = "branch"
                  /\ Len(curr.targets) = Cardinality(es)
                  /\ {curr.targets[j] : j \in 1..Len(curr.targets)}
                        = {wf.edges[i].target : i \in es}

\* C29: after a node's finalize the walk is routed by the action: none
\* selects the edge `default`, a name T the edge T; when the node has no
\* edge of the selected name the walk of that branch ends at the node,
\* without an error and without following another edge.
C29_RoutedByAction ==
    [][(Len(log') = Len(log) + 1 /\ log'[Len(log')].act # "<raise>") =>
          LET e == log'[Len(log')]
              fr == Top(frames')
          IN  /\ exc' = ""
              /\ RoutedAlong(fr.curr, fr.wf, EdgesFrom(fr.wf, e.id, SelectedEdge(e.act)))]_vars

\* A run completed whose last node returned an action that none of its
\* edges carries, while it has a `default` edge.
C29_Witness ==
    /\ pc = "returned" /\ outcome.status = "completed"
    /\ log # <<>>
    /\ LET e == log[Len(log)]
       IN  /\ e.d = 1
           /\ e.act # NoneAction
           /\ EdgesFrom(workflow, e.id, e.act) = {}
           /\ EdgesFrom(workflow, e.id, "default") # {}

(***************************************************************************)
(* Conditions that raise.                                                  *)
(***************************************************************************)

\* The node whose lifecycle the walk runs next.
AtNode(type) ==
    /\ pc = "running" /\ exc = "" /\ frames # <<>>
    /\ Top(frames).f = "flow"
    /\ Top(frames).curr.t = "node"
    /\ PfNode(Top(frames).wf, Top(frames).curr.id).type = type

NodeAtTop == PfNode(Top(frames).wf, Top(frames).curr.id)

\* The next lifecycle evaluates a condition and the evaluation raises.
IfElseRaises ==
    /\ AtNode("if_else")
    /\ IfElseEval(NodeAtTop.data.condition, IfElsePrep(NodeAtTop, Top(contexts))) = "error"

WhileRaises ==
    /\ AtNode("while_loop")
    /\ LET c1 == WhilePrep(NodeAtTop, Top(contexts))
           context == WhileContext(NodeAtTop, c1)
       IN  /\ IntParses(NodeAtTop.data.max_iterations)
           /\ IsNumber(DictGet(context, "iteration"))
           /\ NumberOf(DictGet(context, "iteration")) < IntOf(NodeAtTop.data.max_iterations)
           /\ EvalCondition(NodeAtTop.data.condition, context) = "error"

\* The step ran a lifecycle, which selected `edge`, and the walk went on
\* along the edges of that name with no exception pending.
WentAlong(edge) ==
    LET e == log'[Len(log')]
        fr == Top(frames')
    IN  /\ e.id = NodeAtTop.id
        /\ e.act = edge
        /\ exc' = ""
        /\ pc' = "running"
        /\ RoutedAlong(fr.curr, fr.wf, EdgesFrom(fr.wf, e.id, edge))

\* C30: an error in the evaluation of a condition never propagates: a
\* Conditional node whose expression raises returns `false`, a While node
\* whose expression raises returns `done`, and the run continues along
\* that edge with its status unaffected.
C30_ConditionErrorsRouted ==
    [][/\ (IfElseRaises /\ Len(log') = Len(log) + 1) => WentAlong("false")
       /\ (WhileRaises /\ Len(log') = Len(log) + 1) => WentAlong("done")]_vars

\* A run completed in which the condition 1/0 of a Conditional node was
\* evaluated and the node at the `false` edge ran next.
C30_Witness ==
    /\ pc = "returned" /\ outcome.status = "completed"
    /\ \E i \in 1..(Len(log) - 1) :
          /\ PfNode(workflow, log[i].id).type = "if_else"
          /\ PfNode(workflow, log[i].id).data.condition = "1/0"
          /\ log[i].act = "false"
          /\ log[i + 1].id = "n4"


\* Thread t's node was woken by a resume and has finished; what it read
\* from the response slot is threads[t].response_data.
Resumed(t) == threads[t].pc = "done" /\ threads[t].signaled

\* The fields of a record response are in memory with the response's
\* values.
MergedIntoMemory(t) ==
    LET rd == threads[t].response_data
    IN  rd.t = "map" =>
            \A k \in DictKeys(rd.m) :
                /\ DictHas(threads[t].shared.memory, k)
                /\ DictGet(threads[t].shared.memory, k) = DictGet(rd.m, k)

\* C31 as stated: a HumanInput node that is resumed returns `rejected`
\* exactly when the response is a record whose `approved` field is
\* present and false, and `approved` in every other case; the fields of a
\* record response are merged into memory on both paths.
C31_RejectedIffApprovedFalse ==
    \A t \in 1..MaxThreads :
        Resumed(t) =>
            LET rd == threads[t].response_data
                isFalse == /\ rd.t = "map"
                           /\ DictHas(rd.m, "approved")
                           /\ DictGet(rd.m, "approved") = BoolV(FALSE)
            IN  /\ threads[t].action = (IF isFalse THEN "rejected" ELSE "approved")
                /\ MergedIntoMemory(t)

\* C31 amended: a HumanInput node that is resumed returns `rejected`
\* exactly when the response is a record whose `approved` field is
\* present and falsy (false, but also null, 0 or an empty string), and
\* `approved` in every other case (field absent, field truthy, or response
\* not a record); the fields of a record response are merged into memory
\* on both paths.
C31_RejectedIffApprovedFalsy ==
    \A t \in 1..MaxThreads :
        Resumed(t) =>
            LET rd == threads[t].response_data
                isFalsy == /\ rd.t = "map"
                           /\ DictHas(rd.m, "approved")
                           /\ ~Truthy(DictGet(rd.m, "approved"))
            IN  /\ threads[t].action = (IF isFalsy THEN "rejected" ELSE "approved")
                /\ MergedIntoMemory(t)

C31_Witness ==
    \E t \in 1..MaxThreads :
        /\ Resumed(t)
        /\ threads[t].response_data = MapV(<<[k |-> "approved", v |-> None]>>)
        /\ threads[t].action = "rejected"
        /\ DictGetOr(threads[t].shared.memory, "approved", Str("-")) = None


\* Resume r found the entry of its request, stored its payload and set the
\* event without an error.
ResumeSucceeded(r) == resumes[r].pc = "done"

\* C32: when a resume finds the registry entry of request id r, stores its
\* payload and signals without an error, the suspended node returns on its
\* success path with a payload stored for r; in no interleaving does a
\* resume succeed while the node returns the timeout outcome.
C32_ResumeSuccessIsDelivered ==
    \A r \in 1..MaxResumes, t \in 1..MaxThreads :
        (/\ ResumeSucceeded(r)
         /\ threads[t].request_id = resumes[r].request_id
         /\ threads[t].pc = "done")
            => /\ threads[t].signaled
               /\ Truthy(DictGetOr(threads[t].exec_res, "success", None))
               /\ threads[t].response_data \in StoredPayloads(threads[t].request_id)


\* The number of items of a Loop node.
ItemCount(node) == Len(LoopItems(node.data.items))

\* The run of a workflow of nested Loops has returned.
NestedReturned == workflow \in NestedFamily /\ pc = "returned"

\* C33: a Loop node that is re-entered after it has returned `done` starts
\* again at index 0 over its full item list: in a run of an outer Loop over
\* m items whose body is an inner Loop over n items, every visit of the
\* inner Loop that follows a `loop` of the outer one yields the first item
\* (or `done` when n = 0), and the inner body executes exactly m*n times.
C33_NestedLoopRestarts ==
    NestedReturned =>
        LET outer == PfNode(workflow, "n2")
            inner == PfNode(workflow, "n3")
            m == ItemCount(outer)
            n == ItemCount(inner)
        IN  /\ TimesRun("n4") = m * n
            /\ TimesRun("n3") = m * (n + 1)
            /\ TimesRun("n2") = m + 1
            /\ \A j \in 2..Len(log) :
                  (log[j].id = "n3" /\ log[j - 1].id = "n2") =>
                      IF n = 0 THEN log[j].act = "done"
                      ELSE /\ log[j].act = "loop"
                           /\ log[j].val = LoopItems(inner.data.items)[1]

C33_Witness ==
    /\ NestedReturned
    /\ ItemCount(PfNode(workflow, "n2")) = 2
    /\ ItemCount(PfNode(workflow, "n3")) = 2
    /\ TimesRun("n4") = 4


\* The node id was instantiated, some edge leads to it, and every edge that
\* leads to it comes from a node that was skipped at compile time.
FedOnlyBySkipped(wf, id) ==
    /\ id \in PfNodeIds(wf)
    /\ \E i \in 1..Len(wf.edges) : wf.edges[i].target = id
    /\ \A i \in 1..Len(wf.edges) :
          wf.edges[i].target = id => wf.edges[i].source \notin PfNodeIds(wf)

IsRoot(wf, id) == \E i \in 1..Len(Roots(wf)) : Roots(wf)[i] = id

\* C34: when a node of unknown type is skipped at compile time, every edge
\* that references it is ignored for wiring and for the in-degree, so a
\* node whose only incoming edges come from skipped nodes has in-degree 0
\* and is a root: the run does not fail for want of a start node.
C34_SkippedEdgesIgnored ==
    pc # "init" =>
        \A id \in PfNodeIds(workflow) :
            FedOnlyBySkipped(workflow, id) =>
                /\ InDegree(workflow, id) = 0
                /\ IsRoot(workflow, id)
                /\ outcome # [status |-> "raised", error |-> NoStartNode]


\* The results r1 are the results r0 with the value committed under the
\* node's name and id, and nothing else added, removed or changed.
GainsOnlyOwnEntry(r0, r1, node, value) ==
    /\ DictKeys(r1) = DictKeys(r0) \cup {NodeName(node), node.id}
    /\ DictGet(r1, NodeName(node)) = value
    /\ DictGet(r1, node.id) = value
    /\ \A k \in DictKeys(r0) \ {NodeName(node), node.id} : DictGet(r1, k) = DictGet(r0, k)

\* A sub-run begins: it is given empty results, and the contexts below it
\* stay as they are.
SubRunForked ==
    (Len(contexts') = Len(contexts) + 1 /\ contexts # <<>>) =>
        /\ Top(contexts').results = <<>>
        /\ SubSeq(contexts', 1, Len(contexts)) = contexts

\* A step inside a sub-run changes no context but the sub-run's own.
SubRunKeepsParents ==
    (Len(contexts') = Len(contexts) /\ Len(contexts) >= 2) =>
        \A d \in 1..(Len(contexts) - 1) : contexts'[d] = contexts[d]

\* A sub-run ends, by returning or by raising: the parent's results gain
\* the node's entry, the sub-run's results or an error string, and the
\* parent run goes on.
SubRunCommitted ==
    (frames # <<>> /\ Top(frames).f = "sub" /\ Len(contexts') = Len(contexts) - 1) =>
        LET node == Top(frames).node
            parent == contexts[Len(contexts) - 1]
            value == IF exc = "" THEN MapV(Top(contexts).results) ELSE SubExecError
        IN  /\ GainsOnlyOwnEntry(parent.results, Top(contexts').results, node, value)
            /\ pc' = "running" /\ exc' = ""
            /\ outcome' = outcome

\* The sub-workflow has no name, is not stored or does not compile: the
\* error string is the node's value and the parent run goes on.
SubRunRefused ==
    (AtSubWorkflowNode /\ log' # log) =>
        LET node == CurrentNode
            value == SubWorkflowRefusal(node)
        IN  /\ value.t = "str"
            /\ GainsOnlyOwnEntry(Top(contexts).results, Top(contexts').results, node, value)
            /\ pc' = "running" /\ exc' = ""
            /\ outcome' = outcome

DiamondReturned == workflow \in DiamondFamily /\ pc = "returned"

\* The places in results of an entry under key.
PlacesOf(results, key) == {i \in 1..Len(results) : results[i].k = key}

\* C36: when the two targets A and B of one fan-out each have an edge to
\* the same node M, one run executes M once per branch, twice in all:
\* after A and then after B, in the order of the fan-out; and results ends
\* with a single entry under each key of M, holding the value of its second
\* execution.
C36_MergeRunsPerBranch ==
    DiamondReturned =>
        LET first == workflow.edges[1].target
            second == workflow.edges[2].target
            M == PfNode(workflow, "n4")
            results == contexts[1].results
        IN  /\ [i \in 1..Len(log) |-> log[i].id] = <<"n1", first, "n4", second, "n4">>
            /\ TimesRun("n4") = 2
            /\ log[3].val = log[2].val /\ log[5].val = log[4].val
            /\ \A key \in {NodeName(M), M.id} :
                  /\ Cardinality(PlacesOf(results, key)) = 1
                  /\ DictGet(results, key) = log[5].val

C36_Witness ==
    /\ DiamondReturned
    /\ TimesRun("n4") = 2
    /\ log[3].val # log[5].val
    /\ DictGet(contexts[1].results, "M") = log[5].val


\* The trimmed string form of the result that was the most recent one when
\* the last lifecycle began; there is none at the start of a run.
HasPrevious == Len(log) >= 2

TrimmedInput == Strip(PyStr(PreviousValue))

\* Case i of the node is configured with a text that is not empty after
\* trimming and equals the trimmed input.
CaseMatches(node, i) ==
    /\ HasPrevious
    /\ Strip(node.data.cases[i]) # ""
    /\ Strip(node.data.cases[i]) = TrimmedInput

\* C37: a Switch node returns the first of case_1, case_2, case_3 whose
\* configured value is non-empty after trimming and equals the trimmed
\* string form of the most recent result, and `default` when none does; an
\* empty case value never matches, not even an empty input.
C37_SwitchFirstMatch ==
    LastEntryIs("switch") =>
        LET node == PfNode(workflow, LastEntry.id)
        IN  /\ \A i \in 1..3 :
                  (CaseMatches(node, i) /\ \A j \in 1..(i - 1) : ~CaseMatches(node, j))
                      => LastEntry.act = CaseNames[i]
            /\ (\A i \in 1..3 : ~CaseMatches(node, i)) => LastEntry.act = "default"
            /\ \A i \in 1..3 :
                  Strip(node.data.cases[i]) = "" => LastEntry.act # CaseNames[i]

C37_Witness ==
    /\ LastEntryIs("switch")
    /\ HasPrevious
    /\ PfNode(workflow, LastEntry.id).data.cases = <<" ", " ok ", "ok">>
    /\ PreviousValue = Str(" ok ")
    /\ LastEntry.act = "case_2"

\* An empty input meets an empty case value and the node returns `default`.
SwitchEmptyMeetsEmpty ==
    /\ LastEntryIs("switch")
    /\ HasPrevious /\ TrimmedInput = ""
    /\ Strip(PfNode(workflow, LastEntry.id).data.cases[1]) = ""
    /\ LastEntry.act = "default"


\* Every run has finished its Memory node.
WritersDone == \A w \in DOMAIN writers : writers[w].pc = "done"

\* No two runs set the same key.
DistinctKeys ==
    \A v, w \in DOMAIN writers :
        v # w => MemoryFullKey(writers[v].node) # MemoryFullKey(writers[w].node)

\* C38: when concurrent runs each perform a persistent Memory `set` on
\* different keys of the shared persistent store, every one of the keys is
\* in the store, with the value that was set, after the runs have finished.
C38_DifferentKeysAllKept ==
    (WritersDone /\ DistinctKeys) =>
        \A w \in DOMAIN writers :
            /\ DictHas(memory_file, MemoryFullKey(writers[w].node))
            /\ DictGet(memory_file, MemoryFullKey(writers[w].node))
                  = DictGet(writers[w].shared.memory, MemoryFullKey(writers[w].node))


\* The step is a refresh (the job set is rebuilt) that finds the job n
\* again with the workflow and the trigger it had.
RefreshFindsUnchanged(n) ==
    /\ started /\ workflows_dir' # workflows_dir
    /\ n \in DOMAIN jobs /\ n \in DOMAIN jobs'
    /\ jobs'[n] = jobs[n]

\* C39: a refresh that finds a scheduled workflow unchanged does not
\* postpone that workflow's next fire: the time left to it is what it was.
C39_RefreshKeepsNextFire ==
    [][\A n \in {"daily"} :
          RefreshFindsUnchanged(n) => timers'.due[n] = timers.due[n]]_vars

\* What would follow from it: whatever other workflows are saved or
\* deleted, the interval-scheduled workflow "daily" eventually fires.
DailyEventuallyFires == <>("daily" \in timers.fired)

=============================================================================
